---- MODULE Spec2Model ----
(***************************************************************************)
(* The C3 call-chain clustering of hfsort-light: the Cluster model and the *)
(* HFSorter engine of src/src/C3Algorithm.py over the Node / Predecessor   *)
(* records of src/src/common/classes.py.                                   *)
(*                                                                         *)
(* Numbers.  Python computes densities and weights in binary floating      *)
(* point.  The model keeps them exact:                                     *)
(*   - a density is the integer count of 1/10000 units that                *)
(*     round(total_time / total_size, 4) yields;                           *)
(*   - a comparison of two quotients is cross-multiplied.                  *)
(* For the magnitudes used here the two agree: quotients that differ do so *)
(* by far more than one unit in the last place of a double, and a quotient *)
(* whose fifth decimal is an exact 5 needs a total_size that is a multiple *)
(* of 32, which no cluster of the enumerated inputs has.                   *)
(***************************************************************************)
EXTENDS Integers, Sequences, FiniteSets, TLC

VARIABLES
    args,                   \* the parsed command line: pagesize, k_min_prob, loglevel
    node_list_arg,          \* the node_list argument of HFSorter.__init__ (discovery order)
    node_list,              \* self.node_list: the nodes sorted by global_samples
    cluster_list,           \* self.cluster_list
    k_caller_degrade_factor,\* the attribute HFSorter.__init__ sets on the sorter itself
    pc,                     \* "loop": in the for loop of sort; "done": sort returned; "exit": sys.exit
    pos,                    \* position of the for loop in sorted(self.node_list)
    index,                  \* the local counter of nodes without most likely predecessor
    event,                  \* what the last step did
    visited,                \* function names the loop has visited so far, in order
    result,                 \* the list sort returned
    run,                    \* 1: first sort; 2: the sort over the first sort's output order
    first_run,              \* the first sort: its discovery order and final clusters (name sets)
    report_list,            \* the sections of the parsed report handed to the graph builder
    section,                \* the section the graph builder reads: header.total_samples and
                            \* values, the rows
    symbol_size_list,       \* the size table: a function from names to sizes, <<>> for none
    row,                    \* the row the graph builder's loop is at
    examined_nodes,         \* the graph builder's list of targets it is done with
    parsed_info,            \* the graph builder's node_list, handed to HFSorter by start
    not_found_size_symbols, \* <<n>>, or <<>> once get_symbol_size has returned None for it
    correct_symbols,
    hex_symbols,
    bpc,                    \* where the graph builder is: "idle", "select", "scan", "returned",
                            \* an exit or an exception
    values_list,            \* hf-merge: the value rows of one event's sections, report by report
    combined_list,          \* hf-merge: the rows combine_values returned
    parsed_map,             \* the parsed system map handed to calculate_size_from_systemmap
    sysmap_list,            \* the size dict calculate_size_from_systemmap returned
    prefix_value,           \* the value _calculate_prefix is called with
    prefix_text,            \* the text _calculate_prefix returned
    metadata,               \* the Metadata handed to PerfReportUnparser.unparse
    whole_text,             \* the lines of the text unparse returned
    parsed_file,            \* the Metadata PerfReportParser.parse made of those lines
    tpc                     \* where the report tools are: "idle", "call", "returned" or an
                            \* exception

bvars == <<report_list, section, symbol_size_list, row, examined_nodes,
           parsed_info, not_found_size_symbols, correct_symbols, hex_symbols, bpc>>

tvars == <<values_list, combined_list, parsed_map, sysmap_list, prefix_value,
           prefix_text, metadata, whole_text, parsed_file, tpc>>

vars == <<args, node_list_arg, node_list, cluster_list, k_caller_degrade_factor,
          pc, pos, index, event, visited, result, run, first_run, bvars, tvars>>

(***************************************************************************)
(* Bounds of the enumerated inputs.                                        *)
(***************************************************************************)
MaxNodes == 2
MaxPreds == 2
MaxRows == 3

\* Function names by discovery position, and a caller that is no Node
\* (an unresolved hex address, or a function dropped for a missing size).
Names == <<"A", "B", "C", "D", "E">>
Ext == "0xffffffff81000000"

Sizes == {1, 21}
Samples == {1, 2}
PageSizes == {22}
TotalSamples == {1000}
LogLevels == {"NOTSET", "INFO", "DEBUG"}

(***************************************************************************)
(* Helpers on sequences.                                                   *)
(***************************************************************************)
Range(s) == {s[i] : i \in 1..Len(s)}

RECURSIVE SumSeq(_)
SumSeq(s) == IF s = <<>> THEN 0 ELSE Head(s) + SumSeq(Tail(s))

RECURSIVE Concat(_)
Concat(ss) == IF ss = <<>> THEN <<>> ELSE Head(ss) \o Concat(Tail(ss))

\* Python's del s[i], with i a 1-based position here.
DelAt(s, i) == SubSeq(s, 1, i - 1) \o SubSeq(s, i + 1, Len(s))

\* sorted(s, key=..., reverse=True), as the order of the positions of s:
\* descending by key and stable (positions of equal keys stay in order).
\* keys[i] is the key of s[i].
RECURSIVE InsertDesc(_, _, _)
InsertDesc(order, i, keys) ==
    IF order = <<>> THEN <<i>>
    ELSE IF keys[Head(order)] >= keys[i]
         THEN <<Head(order)>> \o InsertDesc(Tail(order), i, keys)
         ELSE <<i>> \o order

RECURSIVE SortedOrder(_, _, _)
SortedOrder(order, i, keys) ==
    IF i > Len(keys) THEN order
    ELSE SortedOrder(InsertDesc(order, i, keys), i + 1, keys)

SortedDesc(s, keys) ==
    LET order == SortedOrder(<<>>, 1, keys)
    IN  [i \in 1..Len(s) |-> s[order[i]]]

(***************************************************************************)
(* Node and Predecessor (src/src/common/classes.py).                       *)
(***************************************************************************)
\* Predecessor.__init__: weight_to_target = (samples / total_samples) * 100
\* is kept as the pair it is computed from.
Predecessor(source_symbol, samples, total_samples) ==
    [function_name |-> source_symbol,
     samples_to_target |-> samples,
     total_samples |-> total_samples]

Node(function_name, size, global_samples, predecessors) ==
    [function_name |-> function_name,
     size |-> size,
     global_samples |-> global_samples,
     predecessors |-> predecessors]

\* Node.__eq__
NodeEq(a, b) == a.function_name = b.function_name

\* max(self.predecessors, key=samples_to_target): the first of the maxima.
RECURSIVE MaxBySamples(_, _)
MaxBySamples(best, rest) ==
    IF rest = <<>> THEN best
    ELSE IF Head(rest).samples_to_target > best.samples_to_target
         THEN MaxBySamples(Head(rest), Tail(rest))
         ELSE MaxBySamples(best, Tail(rest))

\* Node.get_biggest_predecessor: <<>> stands for None.
get_biggest_predecessor(node) ==
    IF node.predecessors = <<>> THEN <<>>
    ELSE <<MaxBySamples(Head(node.predecessors), Tail(node.predecessors))>>

(***************************************************************************)
(* Cluster (src/src/C3Algorithm.py).                                       *)
(***************************************************************************)
K_CALLER_DEGRADE_FACTOR == 8
DensityScale == 10000

\* round(total_time / total_size, 4) in 1/10000 units, ties to even; the
\* quotient of a negative total_size is the negated rounding of its amount.
Round4(total_time, total_size) ==
    LET d == IF total_size < 0 THEN -total_size ELSE total_size
        n == total_time * DensityScale
        q == n \div d
        r == n % d
        m == IF 2 * r < d THEN q
             ELSE IF 2 * r > d THEN q + 1
             ELSE IF q % 2 = 0 THEN q ELSE q + 1
    IN  IF total_size < 0 THEN -m ELSE m

update_time(nodes) == SumSeq([i \in 1..Len(nodes) |-> nodes[i].global_samples])

update_size(nodes) == SumSeq([i \in 1..Len(nodes) |-> nodes[i].size])

\* Cluster._update_density, on a cluster whose nodes are set.
update_density(cluster) ==
    [cluster EXCEPT !.total_time = update_time(cluster.nodes),
                    !.total_size = update_size(cluster.nodes),
                    !.density = Round4(update_time(cluster.nodes),
                                       update_size(cluster.nodes))]

\* Cluster.__init__
Cluster(node, pagesize) ==
    update_density([page_size |-> pagesize,
                    k_caller_degrade_factor |-> K_CALLER_DEGRADE_FACTOR,
                    nodes |-> <<node>>,
                    total_time |-> 0,
                    total_size |-> 0,
                    density |-> 0])

\* The capacity test with the absorbed cluster's size left out.
CapacityExceeded_self_only(self, other) ==
    self.total_size > self.page_size

\* self.total_size + other_cluster.total_size > self.page_size
CapacityExceeded(self, other) ==
    self.total_size + other.total_size > self.page_size

\* The density test on the unrounded density total_time / total_size.
DensityDegraded_unrounded(self, other) ==
    self.total_time * (self.total_size + other.total_size)
        > self.total_size * (self.total_time + other.total_time)
          * self.k_caller_degrade_factor

\* self.density > new_density * self.k_caller_degrade_factor, with
\* new_density = (self.total_time + other.total_time) /
\*               (self.total_size + other.total_size)
DensityDegraded(self, other) ==
    self.density * (self.total_size + other.total_size)
        > DensityScale * (self.total_time + other.total_time)
          * self.k_caller_degrade_factor

\* check_cluster_merge with self.nodes = other_cluster.nodes in place of +=.
check_cluster_merge_assign(self, other) ==
    IF CapacityExceeded(self, other)
    THEN [rejected |-> TRUE, self |-> self]
    ELSE IF DensityDegraded(self, other)
    THEN [rejected |-> TRUE, self |-> self]
    ELSE [rejected |-> FALSE,
          self |-> update_density([self EXCEPT !.nodes = other.nodes])]

\* check_cluster_merge appending the nodes before the density test.
check_cluster_merge_append_first(self, other) ==
    IF CapacityExceeded(self, other)
    THEN [rejected |-> TRUE, self |-> self]
    ELSE IF DensityDegraded(self, other)
    THEN [rejected |-> TRUE, self |-> [self EXCEPT !.nodes = self.nodes \o other.nodes]]
    ELSE [rejected |-> FALSE,
          self |-> update_density([self EXCEPT !.nodes = self.nodes \o other.nodes])]

\* check_cluster_merge putting the absorbed nodes in front.
check_cluster_merge_prepend(self, other) ==
    IF CapacityExceeded(self, other)
    THEN [rejected |-> TRUE, self |-> self]
    ELSE IF DensityDegraded(self, other)
    THEN [rejected |-> TRUE, self |-> self]
    ELSE [rejected |-> FALSE,
          self |-> update_density([self EXCEPT !.nodes = other.nodes \o self.nodes])]

\* check_cluster_merge leaving the merged nodes in reverse order.
check_cluster_merge_reversed(self, other) ==
    IF CapacityExceeded(self, other)
    THEN [rejected |-> TRUE, self |-> self]
    ELSE IF DensityDegraded(self, other)
    THEN [rejected |-> TRUE, self |-> self]
    ELSE LET ns == self.nodes \o other.nodes
         IN  [rejected |-> FALSE,
              self |-> update_density(
                  [self EXCEPT !.nodes = [i \in 1..Len(ns) |-> ns[Len(ns) + 1 - i]]])]

\* check_cluster_merge without the _update_density after the append.
check_cluster_merge_stale(self, other) ==
    IF CapacityExceeded(self, other)
    THEN [rejected |-> TRUE, self |-> self]
    ELSE IF DensityDegraded(self, other)
    THEN [rejected |-> TRUE, self |-> self]
    ELSE [rejected |-> FALSE,
          self |-> [self EXCEPT !.nodes = self.nodes \o other.nodes]]

\* Cluster.check_cluster_merge: the returned flag and self afterwards.
check_cluster_merge(self, other) ==
    IF CapacityExceeded(self, other)
    THEN [rejected |-> TRUE, self |-> self]
    ELSE IF DensityDegraded(self, other)
    THEN [rejected |-> TRUE, self |-> self]
    ELSE [rejected |-> FALSE,
          self |-> update_density([self EXCEPT !.nodes = self.nodes \o other.nodes])]

(***************************************************************************)
(* HFSorter (src/src/C3Algorithm.py).                                      *)
(***************************************************************************)
\* K_MIN_ARC_PROBABILITY = 0.1, as the fraction MinArcNum / MinArcDen.
MinArcNum == 1
MinArcDen == 10

\* The weight of the arc never looked at.
BelowMinArcProbability_never(p) == FALSE

\* The threshold itself counted as below.
BelowMinArcProbability_inclusive(p) ==
    p.samples_to_target * 100 * MinArcDen <= MinArcNum * p.total_samples

\* predecessor.weight_to_target < self.K_MIN_ARC_PROBABILITY
BelowMinArcProbability(p) ==
    p.samples_to_target * 100 * MinArcDen < MinArcNum * p.total_samples

\* next((node for node in self.node_list if node.function_name == name), None)
RECURSIVE NodeByName(_, _)
NodeByName(nl, name) ==
    IF nl = <<>> THEN <<>>
    ELSE IF Head(nl).function_name = name THEN <<Head(nl)>>
    ELSE NodeByName(Tail(nl), name)

\* The lookup going on to the other predecessors when the biggest one is no
\* Node: the first predecessor that is heavy enough and is a Node.
get_most_likely_predecessor_any(nl, target_node) ==
    LET ps == target_node.predecessors
        usable == {i \in 1..Len(ps) :
                      /\ ~BelowMinArcProbability(ps[i])
                      /\ NodeByName(nl, ps[i].function_name) /= <<>>}
    IN  IF usable = {} THEN <<>>
        ELSE NodeByName(nl, ps[CHOOSE i \in usable :
                                  \A k \in usable : i <= k].function_name)

\* HFSorter._get_most_likely_predecessor: <<>> stands for None.
get_most_likely_predecessor(nl, target_node) ==
    LET predecessor == get_biggest_predecessor(target_node)
    IN  IF predecessor = <<>> THEN <<>>
        ELSE IF BelowMinArcProbability(predecessor[1]) THEN <<>>
        ELSE NodeByName(nl, predecessor[1].function_name)

InCluster(cluster, node) ==
    \E j \in 1..Len(cluster.nodes) : NodeEq(cluster.nodes[j], node)

\* HFSorter._find_cluster: the first cluster holding the node; 0 stands for
\* the exit taken when there is none.
find_cluster(cl, node) ==
    IF \E i \in 1..Len(cl) : InCluster(cl[i], node)
    THEN CHOOSE i \in 1..Len(cl) :
            /\ InCluster(cl[i], node)
            /\ \A k \in 1..(i - 1) : ~InCluster(cl[k], node)
    ELSE 0

\* _merge_clusters deleting the target before it stores the source.
merge_clusters_del_first(cl, source_index, target_index) ==
    LET m == check_cluster_merge(cl[source_index], cl[target_index])
        shorter == DelAt(cl, target_index)
    IN  IF m.rejected THEN [cl EXCEPT ![source_index] = m.self]
        ELSE IF source_index <= Len(shorter)
        THEN [shorter EXCEPT ![source_index] = m.self]
        ELSE shorter

\* _merge_clusters deleting the cluster at source_index after the merge.
merge_clusters_del_source(cl, source_index, target_index) ==
    LET m == check_cluster_merge(cl[source_index], cl[target_index])
        updated == [cl EXCEPT ![source_index] = m.self]
    IN  IF m.rejected THEN updated
        ELSE DelAt(updated, source_index)

\* _merge_clusters without the del of the target cluster.
merge_clusters_no_del(cl, source_index, target_index) ==
    LET m == check_cluster_merge(cl[source_index], cl[target_index])
    IN  [cl EXCEPT ![source_index] = m.self]

\* HFSorter._merge_clusters: cluster_list afterwards.  The source cluster
\* is an object of the list, so what check_cluster_merge does to it is in
\* the list whether the merge is rejected or not.
merge_clusters(cl, source_index, target_index) ==
    LET m == check_cluster_merge(cl[source_index], cl[target_index])
        updated == [cl EXCEPT ![source_index] = m.self]
    IN  IF m.rejected THEN updated
        ELSE DelAt(updated, target_index)

\* The text appended for one node: f"{symbol}  {function_name}" in debug,
\* the bare function name otherwise.
Text(symbol, function_name, debug) ==
    IF debug THEN <<symbol, function_name>> ELSE function_name

\* _sort_functions_in_clusters walking cluster_list as it is.
sort_functions_in_clusters_unsorted(cl, loglevel) ==
    LET debug == loglevel = "DEBUG"
        symbols == IF debug THEN <<"+", "#">> ELSE <<"None", "None">>
    IN  Concat([c \in 1..Len(cl) |->
                  [j \in 1..Len(cl[c].nodes) |->
                      Text(symbols[((c - 1) % 2) + 1],
                           cl[c].nodes[j].function_name, debug)]])

\* HFSorter._sort_functions_in_clusters
sort_functions_in_clusters(cl, loglevel) ==
    LET debug == loglevel = "DEBUG"
        symbols == IF debug THEN <<"+", "#">> ELSE <<"None", "None">>
        ordered == SortedDesc(cl, [i \in 1..Len(cl) |-> cl[i].density])
    IN  Concat([c \in 1..Len(ordered) |->
                  [j \in 1..Len(ordered[c].nodes) |->
                      Text(symbols[((c - 1) % 2) + 1],
                           ordered[c].nodes[j].function_name, debug)]])

(***************************************************************************)
(* The enumerated inputs.  A Node list as the graph builder of hfsort.py   *)
(* hands it over: distinct function names in discovery order, a positive   *)
(* size, no Node among its own predecessors, and global_samples at least   *)
(* the sum of its predecessors' samples (every predecessor is one row of   *)
(* the Node's rows).                                                       *)
(***************************************************************************)
PredsOver(callers, samples, total) ==
    {Predecessor(c, k, total) : c \in callers, k \in samples}

RECURSIVE PredLists(_, _, _)
PredLists(preds, len, budget) ==
    IF len = 0 THEN {<<>>}
    ELSE {<<>>} \cup
         {<<p>> \o rest :
            p \in {x \in preds : x.samples_to_target <= budget},
            rest \in PredLists(preds, len - 1, budget)}

PredSum(ps) == SumSeq([i \in 1..Len(ps) |-> ps[i].samples_to_target])

NodeChoices(n, i, total) ==
    LET callers == {Names[k] : k \in (1..n) \ {i}}
        lists(g) == {l \in PredLists(PredsOver(callers, 1..g, total), MaxPreds, g) :
                        PredSum(l) <= g}
    IN  UNION {{Node(Names[i], size, g, ps) : size \in Sizes, ps \in lists(g)} :
                 g \in Samples}

RECURSIVE NodeLists(_, _, _)
NodeLists(n, k, total) ==
    IF k = 0 THEN {<<>>}
    ELSE {Append(l, x) : l \in NodeLists(n, k - 1, total),
                         x \in NodeChoices(n, k, total)}

\* Three symbols, each with at most one caller, which then accounts for all
\* of the symbol's samples.
SingleCallerChoices(i, total) ==
    LET callers == {Names[k] : k \in (1..3) \ {i}}
        lists(g) == {<<>>} \cup {<<Predecessor(c, g, total)>> : c \in callers}
    IN  UNION {{Node(Names[i], size, g, ps) : size \in Sizes, ps \in lists(g)} :
                 g \in Samples}

SingleCallerTriples(total) ==
    {<<a, b, c>> : a \in SingleCallerChoices(1, total),
                   b \in SingleCallerChoices(2, total),
                   c \in SingleCallerChoices(3, total)}

\* args.k_min_prob is <<>> for None and <<v>> for the value v given with
\* --min-probability.
Args(pagesize, k_min_prob, loglevel) ==
    [pagesize |-> pagesize, k_min_prob |-> k_min_prob, loglevel |-> loglevel]

\* Scenario A of the specification: A, B (called by A), C.
ScenarioA ==
    <<Node("A", 50, 100, <<>>),
      Node("B", 40, 80, <<Predecessor("A", 80, 190)>>),
      Node("C", 1000, 10, <<>>)>>

\* Scenario D: two clusters of size 60 under a page size of 100.
ScenarioD ==
    <<Node("A", 60, 100, <<>>),
      Node("B", 60, 80, <<Predecessor("A", 80, 180)>>)>>

\* A caller whose absorption leaves the exact density 2/3 unchanged after
\* the factor, while the stored density 0.6667 is above it.
ScenarioRounding ==
    <<Node("A", 33, 1, <<>>),
      Node("B", 3, 2, <<Predecessor("A", 2, 2000)>>)>>

(***************************************************************************)
(* HFSorter.__init__ and sort.                                             *)
(***************************************************************************)
\* The sort key taken from the wrong field.
SamplesOf_size(nl) == [i \in 1..Len(nl) |-> nl[i].size]

SamplesOf(nl) == [i \in 1..Len(nl) |-> nl[i].global_samples]

\* self.node_list
init_node_list(nl) == SortedDesc(nl, SamplesOf(nl))

\* self.cluster_list
init_cluster_list(a, nl) == [i \in 1..Len(nl) |-> Cluster(nl[i], a.pagesize)]

\* The names of each cluster's nodes.
ClusterNames(cl) ==
    [i \in 1..Len(cl) |-> [j \in 1..Len(cl[i].nodes) |-> cl[i].nodes[j].function_name]]

\* The state HFSorter.__init__(args, node_list) leaves.
Construct(a, nl) ==
    /\ args' = a
    /\ node_list_arg' = nl
    /\ node_list' = init_node_list(nl)
    /\ cluster_list' = init_cluster_list(a, nl)
    /\ k_caller_degrade_factor' =
          IF a.k_min_prob /= <<>> THEN a.k_min_prob ELSE <<>>
    /\ pc' = "loop"
    /\ pos' = 1
    /\ index' = 0
    /\ event' = "init"
    /\ visited' = <<>>
    /\ result' = <<>>

\* The state HFSorter.__init__(a, nl) leaves.
Constructed(a, nl) ==
    /\ args = a
    /\ node_list_arg = nl
    /\ node_list = init_node_list(nl)
    /\ cluster_list = init_cluster_list(a, nl)
    /\ k_caller_degrade_factor =
          IF a.k_min_prob /= <<>> THEN a.k_min_prob ELSE <<>>
    /\ pc = "loop"
    /\ pos = 1
    /\ index = 0
    /\ event = "init"
    /\ visited = <<>>
    /\ result = <<>>

\* No report tool (hf-merge, the system map parser, the report unparser)
\* at work.
ToolsIdle ==
    /\ values_list = <<>>
    /\ combined_list = <<>>
    /\ parsed_map = <<>>
    /\ sysmap_list = <<>>
    /\ prefix_value = <<>>
    /\ prefix_text = <<>>
    /\ metadata = <<>>
    /\ whole_text = <<>>
    /\ parsed_file = <<>>
    /\ tpc = "idle"

\* The sorter and the graph builder before either has been started.
SorterIdle ==
    /\ args \in {Args(p, <<>>, "NOTSET") : p \in PageSizes}
    /\ node_list_arg = <<>>
    /\ node_list = <<>>
    /\ cluster_list = <<>>
    /\ k_caller_degrade_factor = <<>>
    /\ pc = "unbuilt"
    /\ pos = 1
    /\ index = 0
    /\ event = "init"
    /\ visited = <<>>
    /\ result = <<>>
    /\ run = 1
    /\ first_run = [discovery |-> <<>>, partition |-> {}]

\* HFSorter handed a node list directly: no graph builder at work.
BuilderIdle ==
    /\ report_list = <<>>
    /\ section = [header |-> [total_samples |-> 0], values |-> <<>>]
    /\ symbol_size_list = <<>>
    /\ row = 0
    /\ examined_nodes = <<>>
    /\ parsed_info = <<>>
    /\ not_found_size_symbols = <<0>>
    /\ correct_symbols = 0
    /\ hex_symbols = 0
    /\ bpc = "idle"

Scenarios ==
    {<<4096, ScenarioA>>, <<100, ScenarioD>>, <<4096, ScenarioRounding>>,
     <<4096, <<>>>>}

Init ==
    /\ run = 1
    /\ first_run = [discovery |-> <<>>, partition |-> {}]
    /\ BuilderIdle
    /\ ToolsIdle
    /\ \/ \E p \in PageSizes, t \in TotalSamples, n \in 1..MaxNodes :
            \E nl \in NodeLists(n, n, t) :
                Constructed(Args(p, <<>>, "NOTSET"), nl)
       \/ \E p \in PageSizes, t \in TotalSamples :
            \E nl \in SingleCallerTriples(t) :
                Constructed(Args(p, <<>>, "NOTSET"), nl)
       \/ \E sc \in Scenarios, l \in LogLevels :
            Constructed(Args(sc[1], <<>>, l), sc[2])

\* The loop walking the constructor's list as it was handed over.
CurrentNode_as_handed == node_list_arg[pos]

\* The node the for loop of sort is at.
CurrentNode == SortedDesc(node_list, SamplesOf(node_list))[pos]

\* What one merge attempt did, for the event of the step.
MergeEvent(cl, source_index, target_index) ==
    IF CapacityExceeded(cl[source_index], cl[target_index]) THEN "rejected_capacity"
    ELSE IF DensityDegraded(cl[source_index], cl[target_index]) THEN "rejected_density"
    ELSE "merged"

\* One iteration of the for loop of sort.  The locals of the iteration
\* (node, predecessor_node and the two cluster indices) are bound once, as
\* the single element of a set.
SortStep ==
    /\ pc = "loop"
    /\ pos <= Len(node_list)
    /\ \E node \in {CurrentNode} :
       \E predecessor_node \in {get_most_likely_predecessor(node_list, node)} :
           /\ visited' = Append(visited, node.function_name)
           /\ pos' = pos + 1
           /\ IF predecessor_node = <<>>
              THEN /\ index' = index + 1
                   /\ event' = "no_predecessor"
                   /\ UNCHANGED <<cluster_list, pc>>
              ELSE \E source_cluster_index \in {find_cluster(cluster_list, node)},
                      target_cluster_index \in
                          {find_cluster(cluster_list, predecessor_node[1])} :
                       IF source_cluster_index = 0 \/ target_cluster_index = 0
                       THEN /\ pc' = "exit"
                            /\ event' = "cluster_not_found"
                            /\ UNCHANGED <<cluster_list, index>>
                       ELSE IF source_cluster_index = target_cluster_index
                       THEN /\ event' = "same_cluster"
                            /\ UNCHANGED <<cluster_list, index, pc>>
                       ELSE /\ cluster_list' =
                                  merge_clusters(cluster_list, source_cluster_index,
                                                 target_cluster_index)
                            /\ event' = MergeEvent(cluster_list, source_cluster_index,
                                                   target_cluster_index)
                            /\ UNCHANGED <<index, pc>>
    /\ UNCHANGED <<args, node_list_arg, node_list, k_caller_degrade_factor,
                   result, run, first_run, bvars, tvars>>

\* The end of sort: the statistics printed at INFO and DEBUG divide by the
\* number of nodes; then the function names are written out and returned.
SortFinish ==
    /\ pc = "loop"
    /\ pos > Len(node_list)
    /\ IF args.loglevel \in {"INFO", "DEBUG"} /\ Len(node_list) = 0
       THEN /\ pc' = "error"
            /\ event' = "ZeroDivisionError"
            /\ UNCHANGED <<result, first_run>>
       ELSE /\ pc' = "done"
            /\ event' = "returned"
            /\ result' = sort_functions_in_clusters(cluster_list, args.loglevel)
            /\ first_run' =
                  IF run = 1
                  THEN [discovery |-> [i \in 1..Len(node_list_arg) |->
                                          node_list_arg[i].function_name],
                        partition |-> {Range(ns) :
                                         ns \in Range(ClusterNames(cluster_list))}]
                  ELSE first_run
    /\ UNCHANGED <<args, node_list_arg, node_list, cluster_list,
                   k_caller_degrade_factor, pos, index, visited, run, bvars, tvars>>

\* The function name of one line of the sorted list, as hfsort.py strips the
\* debug characters from it.
NameOfText(text, loglevel) == IF loglevel = "DEBUG" THEN text[2] ELSE text

ResultNames == [i \in 1..Len(result) |-> NameOfText(result[i], args.loglevel)]

\* A second sort over the same Nodes, handed over in the order the first
\* sort returned them.
Resort ==
    /\ pc = "done"
    /\ run = 1
    /\ run' = 2
    /\ Construct(args, [i \in 1..Len(result) |->
                            NodeByName(node_list_arg, ResultNames[i])[1]])
    /\ UNCHANGED <<first_run, bvars, tvars>>

Next == SortStep \/ SortFinish \/ Resort

Spec == Init /\ [][Next]_vars

(***************************************************************************)
(* Inputs with callers that are no Node, arcs below the minimum arc        *)
(* probability and a value for --min-probability.                          *)
(***************************************************************************)
ArcTotalSamples == {1000, 2000}
ArcSamples == {1, 2}
MinProbabilities == {<<1>>}

\* The predecessor lists of one Node: none, one caller, or Ext and one other
\* Node in either order.
ArcPredLists(callers, total) ==
    {<<>>}
    \cup {<<Predecessor(c, k, total)>> : c \in callers \cup {Ext}, k \in ArcSamples}
    \cup UNION {{<<Predecessor(Ext, km[1], total), Predecessor(c, km[2], total)>>,
                 <<Predecessor(c, km[2], total), Predecessor(Ext, km[1], total)>>} :
                    c \in callers,
                    km \in {x \in ArcSamples \X ArcSamples : x[1] + x[2] <= 3}}

\* A Node of size 1 whose samples are those of its callers and one of its own.
ArcNodeChoices(n, i, total) ==
    {Node(Names[i], 1, PredSum(ps) + 1, ps) :
        ps \in ArcPredLists({Names[k] : k \in (1..n) \ {i}}, total)}

RECURSIVE ArcNodeLists(_, _, _)
ArcNodeLists(n, k, total) ==
    IF k = 0 THEN {<<>>}
    ELSE {Append(l, x) : l \in ArcNodeLists(n, k - 1, total),
                         x \in ArcNodeChoices(n, k, total)}

InitArcs ==
    /\ run = 1
    /\ first_run = [discovery |-> <<>>, partition |-> {}]
    /\ BuilderIdle
    /\ ToolsIdle
    /\ \E p \in PageSizes, n \in 1..MaxNodes :
          \/ \E t \in ArcTotalSamples :
                \E nl \in ArcNodeLists(n, n, t) :
                    Constructed(Args(p, <<>>, "NOTSET"), nl)
          \/ \E t \in TotalSamples, v \in MinProbabilities :
                \E nl \in ArcNodeLists(n, n, t) :
                    Constructed(Args(p, v, "NOTSET"), nl)

SpecArcs == InitArcs /\ [][Next]_vars

(***************************************************************************)
(* The graph builder (src/hfsort.py) and is_hex (src/common/functions.py). *)
(* A row is a dict of the parsed report: samples, source_symbol,           *)
(* target_symbol and symbol_size, <<>> where the row has no such field.    *)
(***************************************************************************)
Row(samples, source_symbol, target_symbol, symbol_size) ==
    [samples |-> samples, source_symbol |-> source_symbol,
     target_symbol |-> target_symbol, symbol_size |-> symbol_size]

\* The characters of the symbols of the report, which the parser has put
\* in lower case.
Spelling(string) ==
    CASE string = "a" -> <<"a">>
      [] string = "b" -> <<"b">>
      [] string = "c" -> <<"c">>
      [] string = "0x" -> <<"0", "x">>
      [] string = "0xff" -> <<"0", "x", "f", "f">>
      [] string = "0xfg" -> <<"0", "x", "f", "g">>
      [] string = "x0ff" -> <<"x", "0", "f", "f">>

HexDigits ==
    {"0", "1", "2", "3", "4", "5", "6", "7", "8", "9",
     "a", "b", "c", "d", "e", "f", "A", "B", "C", "D", "E", "F"}

\* The pattern with the digits A to F in upper case only.
is_hex_upper(string) ==
    LET c == Spelling(string)
    IN  /\ Len(c) >= 3
        /\ c[1] = "0"
        /\ c[2] = "x"
        /\ \A i \in 3..Len(c) :
              c[i] \in {"0", "1", "2", "3", "4", "5", "6", "7", "8", "9",
                        "A", "B", "C", "D", "E", "F"}

\* pattern.match(string) with pattern ^0x[0-9a-fA-F]+$
is_hex(string) ==
    LET c == Spelling(string)
    IN  /\ Len(c) >= 3
        /\ c[1] = "0"
        /\ c[2] = "x"
        /\ \A i \in 3..Len(c) : c[i] \in HexDigits

\* get_symbol_size: the pair it returns, or raised when int(None) raises
\* TypeError or None += 1 does.
get_symbol_size(element, size_list, ta_sy, not_found_size_symbol, debug) ==
    IF DOMAIN size_list = {}
    THEN IF element.symbol_size = <<>>
         THEN [raised |-> TRUE, symbol_size |-> <<>>, not_found |-> <<>>]
         ELSE [raised |-> FALSE, symbol_size |-> element.symbol_size,
               not_found |-> not_found_size_symbol]
    ELSE IF ta_sy \in DOMAIN size_list
    THEN [raised |-> FALSE, symbol_size |-> <<size_list[ta_sy]>>,
          not_found |-> not_found_size_symbol]
    ELSE IF debug /\ not_found_size_symbol = <<>>
    THEN [raised |-> TRUE, symbol_size |-> <<>>, not_found |-> <<>>]
    ELSE IF element.symbol_size = <<>>
    THEN [raised |-> FALSE, symbol_size |-> <<>>, not_found |-> <<>>]
    ELSE [raised |-> FALSE, symbol_size |-> element.symbol_size,
          not_found |-> IF debug THEN <<not_found_size_symbol[1] + 1>>
                        ELSE not_found_size_symbol]

\* create_new_node counting the samples of the rows with another source only.
RECURSIVE create_new_node_callers_only(_, _, _, _)
create_new_node_callers_only(values, symbol_size, ta_sy, total) ==
    IF values = <<>> THEN Node(ta_sy, symbol_size, 0, <<>>)
    ELSE LET node == create_new_node_callers_only(SubSeq(values, 1, Len(values) - 1),
                                                  symbol_size, ta_sy, total)
             el == values[Len(values)]
         IN  IF el.target_symbol /= ta_sy \/ el.source_symbol = ta_sy THEN node
             ELSE Node(ta_sy, symbol_size, node.global_samples + el.samples,
                       Append(node.predecessors,
                              Predecessor(el.source_symbol, el.samples, total)))

\* create_new_node: every row with the target adds its samples, and every
\* such row with another source appends a Predecessor.
RECURSIVE create_new_node(_, _, _, _)
create_new_node(values, symbol_size, ta_sy, total) ==
    IF values = <<>> THEN Node(ta_sy, symbol_size, 0, <<>>)
    ELSE LET node == create_new_node(SubSeq(values, 1, Len(values) - 1),
                                     symbol_size, ta_sy, total)
             el == values[Len(values)]
         IN  IF el.target_symbol /= ta_sy THEN node
             ELSE Node(ta_sy, symbol_size, node.global_samples + el.samples,
                       IF el.source_symbol /= ta_sy
                       THEN Append(node.predecessors,
                                   Predecessor(el.source_symbol, el.samples, total))
                       ELSE node.predecessors)

\* One iteration of the for loop of
\* parse_and_combine_information_from_multiple_files.
BuildStep ==
    /\ bpc = "scan"
    /\ row <= Len(section.values)
    /\ LET element == section.values[row]
           ta_sy == element.target_symbol
           debug == args.loglevel = "DEBUG"
           got == get_symbol_size(element, symbol_size_list, ta_sy,
                                  not_found_size_symbols, debug)
       IN  IF ta_sy \in Range(examined_nodes)
           THEN /\ row' = row + 1
                /\ UNCHANGED <<examined_nodes, parsed_info, not_found_size_symbols,
                               correct_symbols, hex_symbols, bpc>>
           ELSE IF is_hex(ta_sy)
           THEN /\ examined_nodes' = Append(examined_nodes, ta_sy)
                /\ hex_symbols' = hex_symbols + 1
                /\ row' = row + 1
                /\ UNCHANGED <<parsed_info, not_found_size_symbols, correct_symbols, bpc>>
           ELSE IF got.raised
           THEN /\ bpc' = "TypeError"
                /\ correct_symbols' = correct_symbols + 1
                /\ UNCHANGED <<examined_nodes, parsed_info, not_found_size_symbols,
                               hex_symbols, row>>
           ELSE IF got.symbol_size = <<>> \/ got.symbol_size = <<0>>
           THEN IF debug /\ got.not_found = <<>>
                THEN /\ bpc' = "TypeError"
                     /\ correct_symbols' = correct_symbols + 1
                     /\ not_found_size_symbols' = got.not_found
                     /\ UNCHANGED <<examined_nodes, parsed_info, hex_symbols, row>>
                ELSE /\ not_found_size_symbols' =
                           IF debug THEN <<got.not_found[1] + 1>> ELSE got.not_found
                     /\ correct_symbols' = correct_symbols + 1
                     /\ examined_nodes' = Append(examined_nodes, ta_sy)
                     /\ row' = row + 1
                     /\ UNCHANGED <<parsed_info, hex_symbols, bpc>>
           ELSE /\ parsed_info' =
                      Append(parsed_info,
                             create_new_node(section.values, got.symbol_size[1], ta_sy,
                                             section.header.total_samples))
                /\ not_found_size_symbols' = got.not_found
                /\ correct_symbols' = correct_symbols + 1
                /\ examined_nodes' = Append(examined_nodes, ta_sy)
                /\ row' = row + 1
                /\ UNCHANGED <<hex_symbols, bpc>>
    /\ UNCHANGED <<report_list, section, symbol_size_list>>
    /\ UNCHANGED <<args, node_list_arg, node_list, cluster_list, k_caller_degrade_factor,
                   pc, pos, index, event, visited, result, run, first_run, tvars>>

\* The end of the scan: the statistics printed at INFO and DEBUG divide
\* not_found_size_symbols by correct_symbols; then node_list is returned.
BuildFinish ==
    /\ bpc = "scan"
    /\ row > Len(section.values)
    /\ bpc' = IF args.loglevel \in {"INFO", "DEBUG"}
              THEN IF not_found_size_symbols = <<>> THEN "TypeError"
                   ELSE IF correct_symbols = 0 THEN "ZeroDivisionError"
                   ELSE "returned"
              ELSE "returned"
    /\ UNCHANGED <<report_list, section, symbol_size_list, row, examined_nodes, parsed_info,
                   not_found_size_symbols, correct_symbols, hex_symbols>>
    /\ UNCHANGED <<args, node_list_arg, node_list, cluster_list, k_caller_degrade_factor,
                   pc, pos, index, event, visited, result, run, first_run, tvars>>

\* start: sorter = HFSorter(args, parsed_info)
StartSort ==
    /\ bpc = "returned"
    /\ pc = "unbuilt"
    /\ Construct(args, parsed_info)
    /\ UNCHANGED <<run, first_run, bvars, tvars>>

NextBuild == BuildStep \/ BuildFinish \/ StartSort \/ SortStep \/ SortFinish

\* The sections the graph builder is run on.  Call rows: targets that are
\* functions or an address, each row with a size of its own.
CallRows ==
    {Row(k, src, tgt, <<1>>) :
        k \in ArcSamples, src \in {"a", "b"}, tgt \in {"a", "b", "0xff"}}

\* Size rows: one sample from a caller that is no target, with a size, with
\* the size unknown (0), or without the field.
SizeRows ==
    {Row(1, "c", tgt, size) : tgt \in {"a", "b"}, size \in {<<>>, <<0>>, <<1>>}}

SizeLists == {<<>>, "b" :> 1}

\* Rows whose symbol_size field reads "-1" or "1": _convert leaves "-1" a
\* string (it is not isdigit()), and get_symbol_size's int() makes it -1.
SignedSizeRows ==
    {Row(1, "c", tgt, size) : tgt \in {"a", "b"}, size \in {<<-1>>, <<1>>}}

\* Size tables with a zero and with a negative entry.
SignedSizeLists == {"b" :> 0, "b" :> -1}

\* Rows with symbols close to an address, and an address as the caller.
NearHexSections ==
    {<<Row(1, "a", "0x", <<1>>), Row(2, "0xff", "0xfg", <<1>>),
       Row(1, "0xff", "a", <<1>>)>>,
     <<Row(1, "a", "x0ff", <<1>>), Row(2, "x0ff", "0xff", <<1>>),
       Row(1, "0xff", "x0ff", <<1>>)>>}

RECURSIVE Sections(_, _)
Sections(rows, len) ==
    IF len = 0 THEN {<<>>}
    ELSE {<<>>} \cup {<<r>> \o rest : r \in rows, rest \in Sections(rows, len - 1)}

\* The state before the graph builder has read a row; no HFSorter yet.
BuildStart(a, values, size_list) ==
    /\ section = [header |-> [total_samples |-> 1000], values |-> values]
    /\ report_list = <<[header |-> [total_samples |-> 1000], values |-> values]>>
    /\ symbol_size_list = size_list
    /\ row = 1
    /\ examined_nodes = <<>>
    /\ parsed_info = <<>>
    /\ not_found_size_symbols = <<0>>
    /\ correct_symbols = 0
    /\ hex_symbols = 0
    /\ bpc = "scan"
    /\ ToolsIdle
    /\ args = a
    /\ node_list_arg = <<>>
    /\ node_list = <<>>
    /\ cluster_list = <<>>
    /\ k_caller_degrade_factor = <<>>
    /\ pc = "unbuilt"
    /\ pos = 1
    /\ index = 0
    /\ event = "init"
    /\ visited = <<>>
    /\ result = <<>>
    /\ run = 1
    /\ first_run = [discovery |-> <<>>, partition |-> {}]

InitBuild ==
    \E p \in PageSizes :
        \/ \E values \in Sections(CallRows, MaxRows) :
              BuildStart(Args(p, <<>>, "NOTSET"), values, <<>>)
        \/ \E values \in Sections(SizeRows, MaxRows), sl \in SizeLists, l \in LogLevels :
              BuildStart(Args(p, <<>>, l), values, sl)
        \/ \E values \in NearHexSections :
              BuildStart(Args(p, <<>>, "NOTSET"), values, <<>>)
        \/ \E values \in Sections(SignedSizeRows, MaxRows), sl \in SignedSizeLists :
              BuildStart(Args(p, <<>>, "NOTSET"), values, sl)

SpecBuild == InitBuild /\ [][NextBuild]_vars

(***************************************************************************)
(* The choice of the section (src/hfsort.py).                              *)
(***************************************************************************)
MaxSections == 2

EventNames == {"cycles:k", "instructions:u", "cache-misses"}

\* word in event_name, for the event names of EventNames.
Contains(event_name, word) ==
    \/ event_name = "cycles:k" /\ word = "cycles"
    \/ event_name = "instructions:u" /\ word = "instructions"

\* The test as it reads: an event name with cycles or instructions in it.
interesting_by_event(sec) ==
    \/ Contains(sec.header.event_name, "cycles")
    \/ Contains(sec.header.event_name, "instructions")

\* "cycles" or "instructions" in section.header.get("event_name"): Python's
\* or gives its left operand when that is a non-empty string, and only
\* otherwise the membership test on its right.
interesting(sec) ==
    IF "cycles" /= "" THEN TRUE
    ELSE Contains(sec.header.event_name, "instructions")

\* The for loop over report_list.sections with its break: the loop variable
\* afterwards, which is the last section when no section broke the loop.
RECURSIVE for_section(_)
for_section(sections) ==
    IF Len(sections) = 1 \/ interesting(Head(sections)) THEN Head(sections)
    ELSE for_section(Tail(sections))

\* The head of parse_and_combine_information_from_multiple_files: the exit
\* for a report without sections, and the section chosen.  The loop variable
\* is a Section object, which is never false, so the exit that follows the
\* loop is not taken.
SelectSection ==
    /\ bpc = "select"
    /\ IF report_list = <<>>
       THEN /\ bpc' = "exit_no_section"
            /\ UNCHANGED section
       ELSE /\ section' = for_section(report_list)
            /\ bpc' = "scan"
    /\ UNCHANGED <<report_list, symbol_size_list, row, examined_nodes, parsed_info,
                   not_found_size_symbols, correct_symbols, hex_symbols>>
    /\ UNCHANGED <<args, node_list_arg, node_list, cluster_list, k_caller_degrade_factor,
                   pc, pos, index, event, visited, result, run, first_run, tvars>>

\* The reports: up to MaxSections sections, each of an event and with no
\* row, a row to a or a row to b.
ReportSections ==
    {[header |-> [total_samples |-> 1000, event_name |-> e], values |-> v] :
        e \in EventNames,
        v \in {<<>>, <<Row(1, "c", "a", <<1>>)>>, <<Row(2, "c", "b", <<1>>)>>}}

InitSelect ==
    \E p \in PageSizes, sections \in Sections(ReportSections, MaxSections) :
        /\ report_list = sections
        /\ section = [header |-> [total_samples |-> 0], values |-> <<>>]
        /\ symbol_size_list = <<>>
        /\ row = 1
        /\ examined_nodes = <<>>
        /\ parsed_info = <<>>
        /\ not_found_size_symbols = <<0>>
        /\ correct_symbols = 0
        /\ hex_symbols = 0
        /\ bpc = "select"
        /\ ToolsIdle
        /\ args = Args(p, <<>>, "NOTSET")
        /\ node_list_arg = <<>>
        /\ node_list = <<>>
        /\ cluster_list = <<>>
        /\ k_caller_degrade_factor = <<>>
        /\ pc = "unbuilt"
        /\ pos = 1
        /\ index = 0
        /\ event = "init"
        /\ visited = <<>>
        /\ result = <<>>
        /\ run = 1
        /\ first_run = [discovery |-> <<>>, partition |-> {}]

NextSelect == SelectSection \/ BuildStep \/ BuildFinish \/ StartSort \/ SortStep \/ SortFinish

SpecSelect == InitSelect /\ [][NextSelect]_vars

(***************************************************************************)
(* One sort run to its end.  sort is a sequential loop: an iteration that  *)
(* can be taken is taken, and so is the end of the loop, which is what the *)
(* weak fairness of the two steps says.  The Node lists include the empty  *)
(* one, which the graph builder returns when no target has a size.         *)
(***************************************************************************)
InitTerm ==
    /\ run = 1
    /\ first_run = [discovery |-> <<>>, partition |-> {}]
    /\ BuilderIdle
    /\ ToolsIdle
    /\ \/ \E p \in PageSizes, t \in TotalSamples, n \in 0..MaxNodes, l \in LogLevels :
            \E nl \in NodeLists(n, n, t) :
                Constructed(Args(p, <<>>, l), nl)
       \/ \E p \in PageSizes, t \in TotalSamples :
            \E nl \in SingleCallerTriples(t) :
                Constructed(Args(p, <<>>, "NOTSET"), nl)

NextTerm == SortStep \/ SortFinish

SpecTerm ==
    InitTerm /\ [][NextTerm]_vars /\ WF_vars(SortStep) /\ WF_vars(SortFinish)

(***************************************************************************)
(* hf-merge.py: combine_values over the sections of one event.  A dict is  *)
(* the sequence of its [key, value] entries in insertion order.            *)
(***************************************************************************)
MaxReports == 2
MaxItems == 2

\* One value row of a parsed section.
Item(samples, source_symbol, target_symbol) ==
    [samples |-> samples, source_symbol |-> source_symbol,
     target_symbol |-> target_symbol, overhead |-> 0]

CommonFields == <<"samples", "source_symbol", "target_symbol">>

\* {key: item[key] for key in common_fields}
filter_for_common(common_fields, item) ==
    [key \in Range(common_fields) |-> item[key]]

\* dict.get(key): the entry's position, 0 for None.
DictIndex(d, key) ==
    IF \E i \in 1..Len(d) : d[i].key = key
    THEN CHOOSE i \in 1..Len(d) : d[i].key = key
    ELSE 0

\* d[key] = value: in the place of the key's entry, or at the end.
DictSet(d, key, value) ==
    IF DictIndex(d, key) = 0 THEN Append(d, [key |-> key, value |-> value])
    ELSE [d EXCEPT ![DictIndex(d, key)].value = value]

\* The dict transform_into_custom_format makes of one section's rows,
\* under the key f"{source_symbol}{target_symbol}".
RECURSIVE hash_values(_, _, _)
hash_values(common_fields, value_list, new_value) ==
    IF value_list = <<>> THEN new_value
    ELSE LET item == Head(value_list)
             new_key == item.source_symbol \o item.target_symbol
         IN  hash_values(common_fields, Tail(value_list),
                         DictSet(new_value, new_key,
                                 filter_for_common(common_fields, item)))

transform_into_custom_format(common_fields, vl) ==
    [i \in 1..Len(vl) |-> hash_values(common_fields, vl[i], <<>>)]

\* add_up_samples: the entry of new_key gets the sum of the two samples.
add_up_samples(combined, new_key, new_value) ==
    [combined EXCEPT ![DictIndex(combined, new_key)].value.samples =
        combined[DictIndex(combined, new_key)].value.samples + new_value.samples]

\* The inner loop of combine_values over the items of one more dict: the
\* samples are added up where the key is known, and then, known or not,
\* combined_list[new_key] = new_value.
RECURSIVE merge_items(_, _)
merge_items(combined, items) ==
    IF items = <<>> THEN combined
    ELSE LET new_key == Head(items).key
             new_value == Head(items).value
             known == /\ DictIndex(combined, new_key) /= 0
                      /\ DOMAIN combined[DictIndex(combined, new_key)].value /= {}
             added == IF known THEN add_up_samples(combined, new_key, new_value)
                      ELSE combined
         IN  merge_items(DictSet(added, new_key, new_value), Tail(items))

\* The outer loop of combine_values from the dict at position i on.
RECURSIVE merge_dicts(_, _, _)
merge_dicts(combined, hashed_values_list, i) ==
    IF i > Len(hashed_values_list) THEN combined
    ELSE merge_dicts(IF i = 1 THEN hashed_values_list[1]
                     ELSE merge_items(combined, hashed_values_list[i]),
                     hashed_values_list, i + 1)

\* combine_values: the rows of the combined dict, in its order.
combine_values(common_fields, vl) ==
    LET merged == merge_dicts(<<>>, transform_into_custom_format(common_fields, vl), 1)
    IN  [i \in 1..Len(merged) |-> merged[i].value]

\* join_sections calling combine_values for one event.
CombineValues ==
    /\ tpc = "call_combine_values"
    /\ combined_list' = combine_values(CommonFields, values_list)
    /\ tpc' = "returned"
    /\ UNCHANGED <<args, node_list_arg, node_list, cluster_list,
                   k_caller_degrade_factor, pc, pos, index, event, visited, result,
                   run, first_run, bvars, values_list, parsed_map, sysmap_list,
                   prefix_value, prefix_text, metadata, whole_text, parsed_file>>

\* The edges of the reports' rows.
Edges == {<<"a", "b">>, <<"b", "a">>, <<"c", "a">>}

MergeSamples == {1, 2}

\* The rows of one section: up to len rows, no edge twice.
RECURSIVE ItemLists(_)
ItemLists(len) ==
    IF len = 0 THEN {<<>>}
    ELSE ItemLists(len - 1) \cup
         {Append(l, Item(k, e[1], e[2])) :
             l \in {x \in ItemLists(len - 1) : Len(x) = len - 1},
             k \in MergeSamples, e \in Edges}

DistinctEdges(l) ==
    \A i, j \in 1..Len(l) :
        (l[i].source_symbol = l[j].source_symbol
         /\ l[i].target_symbol = l[j].target_symbol) => i = j

RECURSIVE ReportLists(_)
ReportLists(n) ==
    IF n = 0 THEN {<<>>}
    ELSE ReportLists(n - 1) \cup
         {Append(rs, l) : rs \in {x \in ReportLists(n - 1) : Len(x) = n - 1},
                          l \in {x \in ItemLists(MaxItems) : DistinctEdges(x)}}

InitMerge ==
    /\ SorterIdle
    /\ BuilderIdle
    /\ values_list \in ReportLists(MaxReports)
    /\ combined_list = <<>>
    /\ parsed_map = <<>>
    /\ sysmap_list = <<>>
    /\ prefix_value = <<>>
    /\ prefix_text = <<>>
    /\ metadata = <<>>
    /\ whole_text = <<>>
    /\ parsed_file = <<>>
    /\ tpc = "call_combine_values"

NextMerge == CombineValues

SpecMerge == InitMerge /\ [][NextMerge]_vars

(***************************************************************************)
(* calculate_size_from_systemmap (src/src/SystemmapParser.py).  An address *)
(* is the sequence of the characters of its hexadecimal spelling.          *)
(***************************************************************************)
MaxMapEntries == 4

\* The value of one hexadecimal digit.
HexDigitValue(c) ==
    CASE c = "0" -> 0 [] c = "1" -> 1 [] c = "2" -> 2 [] c = "3" -> 3
      [] c = "4" -> 4 [] c = "5" -> 5 [] c = "6" -> 6 [] c = "7" -> 7
      [] c = "8" -> 8 [] c = "9" -> 9 [] c = "a" -> 10 [] c = "b" -> 11
      [] c = "c" -> 12 [] c = "d" -> 13 [] c = "e" -> 14 [] c = "f" -> 15

\* int(address, 16)
RECURSIVE HexValue(_)
HexValue(address) ==
    IF address = <<>> THEN 0
    ELSE 16 * HexValue(SubSeq(address, 1, Len(address) - 1))
         + HexDigitValue(address[Len(address)])

\* namedtuple("sysmap", ["address", "symbol_type", "symbol"])
MapElement(address, symbol_type, symbol) ==
    [address |-> address, symbol_type |-> symbol_type, symbol |-> symbol]

\* The loop of calculate_size_from_systemmap from the element of the
\* (0-based) position at on: the size dict, or the IndexError that
\* parsed_map[at + 1] raises.
RECURSIVE size_loop(_, _, _)
size_loop(pm, at, sizes) ==
    LET total_length == Len(pm)
        element == pm[at + 1]
    IN  IF at >= total_length THEN [raised |-> FALSE, sysmap_list |-> sizes]
        ELSE IF element.symbol_type \notin {"t", "T"}
        THEN size_loop(pm, at + 1, sizes)
        ELSE IF at + 1 > total_length
        THEN size_loop(pm, at + 1, DictSet(sizes, element.symbol, 0))
        ELSE IF at + 2 > total_length
        THEN [raised |-> TRUE, sysmap_list |-> sizes]
        ELSE size_loop(pm, at + 1,
                       DictSet(sizes, element.symbol,
                               HexValue(pm[at + 2].address) - HexValue(element.address)))

calculate_size_from_systemmap(pm) == size_loop(pm, 0, <<>>)

\* parse_systemmap handing its sorted list to calculate_size_from_systemmap.
CalculateSize ==
    /\ tpc = "call_calculate_size"
    /\ IF calculate_size_from_systemmap(parsed_map).raised
       THEN tpc' = "IndexError" /\ UNCHANGED sysmap_list
       ELSE /\ tpc' = "returned"
            /\ sysmap_list' = calculate_size_from_systemmap(parsed_map).sysmap_list
    /\ UNCHANGED <<args, node_list_arg, node_list, cluster_list,
                   k_caller_degrade_factor, pc, pos, index, event, visited, result,
                   run, first_run, bvars, values_list, combined_list, parsed_map,
                   prefix_value, prefix_text, metadata, whole_text, parsed_file>>

\* Addresses in ascending order, as sorted by parse_systemmap.
MapAddresses ==
    <<<<"1", "0">>, <<"1", "f">>, <<"a", "0">>, <<"a", "c">>, <<"b", "0">>,
      <<"e", "9">>>>

MapSymbols == <<"f", "g", "h", "i", "j", "k">>

SymbolTypes == {"t", "T", "d"}

\* The maps of n entries: the first n addresses and symbols, every type.
SystemMaps(n) ==
    {[i \in 1..n |-> MapElement(MapAddresses[i], types[i], MapSymbols[i])] :
        types \in [1..n -> SymbolTypes]}

InitSystemmap ==
    /\ SorterIdle
    /\ BuilderIdle
    /\ values_list = <<>>
    /\ combined_list = <<>>
    /\ \E n \in 0..MaxMapEntries : parsed_map \in SystemMaps(n)
    /\ sysmap_list = <<>>
    /\ prefix_value = <<>>
    /\ prefix_text = <<>>
    /\ metadata = <<>>
    /\ whole_text = <<>>
    /\ parsed_file = <<>>
    /\ tpc = "call_calculate_size"

NextSystemmap == CalculateSize

SpecSystemmap == InitSystemmap /\ [][NextSystemmap]_vars

(***************************************************************************)
(* PerfReportUnparser._calculate_prefix (src/src/ReportParser.py).  The    *)
(* values reach 10^17, so a number is its sign and the sequence of its     *)
(* decimal digits, without leading zeros.                                  *)
(***************************************************************************)
MaxDigits == 19

Number(negative, digits) == [negative |-> negative, digits |-> digits]

\* len(str(value))
Characters(value) == Len(value.digits) + (IF value.negative THEN 1 ELSE 0)

\* The digits of 10^17.
TenToThe17 == [i \in 1..18 |-> IF i = 1 THEN 1 ELSE 0]

\* value > 10 ** 17, for a value that is not negative.
Above10To17(value) ==
    \/ Len(value.digits) > 18
    \/ Len(value.digits) = 18 /\ value.digits /= TenToThe17

si_prefixes == <<"", "K", "M", "G", "T", "P">>

Min(a, b) == IF a < b THEN a ELSE b

Max(a, b) == IF a > b THEN a ELSE b

\* int(value // 1000 ** suffix_index) in digits: the last 3 * suffix_index
\* digits are cut off, and 0 is left when there are no more.
FloorDivThousands(digits, suffix_index) ==
    IF Len(digits) <= 3 * suffix_index THEN <<0>>
    ELSE SubSeq(digits, 1, Len(digits) - 3 * suffix_index)

\* _calculate_prefix: the number and the prefix of the text returned, the
\* prefix "NULL" with no number for the text NULL.
calculate_prefix(value) ==
    LET characters == Characters(value)
        suffix_index == Max(0, Min(characters \div 3, Len(si_prefixes) - 1))
    IN  IF value.negative \/ Above10To17(value)
        THEN [number |-> <<>>, prefix |-> "NULL"]
        ELSE [number |-> FloorDivThousands(value.digits, suffix_index),
              prefix |-> si_prefixes[suffix_index + 1]]

\* _create_section_header calling _calculate_prefix(total_samples).
CalculatePrefix ==
    /\ tpc = "call_calculate_prefix"
    /\ prefix_text' = calculate_prefix(prefix_value)
    /\ tpc' = "returned"
    /\ UNCHANGED <<args, node_list_arg, node_list, cluster_list,
                   k_caller_degrade_factor, pc, pos, index, event, visited, result,
                   run, first_run, bvars, values_list, combined_list, parsed_map,
                   sysmap_list, prefix_value, metadata, whole_text, parsed_file>>

\* Values of every length up to MaxDigits: a leading 1 or 9 followed by
\* zeros or by nines; 0, 51947858, -1 and -1000.
PrefixValues ==
    {Number(FALSE, [i \in 1..n |-> IF i = 1 THEN lead ELSE fill]) :
        n \in 1..MaxDigits, lead \in {1, 9}, fill \in {0, 9}}
    \cup {Number(FALSE, <<0>>), Number(FALSE, <<5, 1, 9, 4, 7, 8, 5, 8>>),
          Number(TRUE, <<1>>), Number(TRUE, <<1, 0, 0, 0>>)}

InitPrefix ==
    /\ SorterIdle
    /\ BuilderIdle
    /\ values_list = <<>>
    /\ combined_list = <<>>
    /\ parsed_map = <<>>
    /\ sysmap_list = <<>>
    /\ prefix_value \in PrefixValues
    /\ prefix_text = <<>>
    /\ metadata = <<>>
    /\ whole_text = <<>>
    /\ parsed_file = <<>>
    /\ tpc = "call_calculate_prefix"

NextPrefix == CalculatePrefix

SpecPrefix == InitPrefix /\ [][NextPrefix]_vars

(***************************************************************************)
(* PerfReportUnparser.unparse and PerfReportParser.parse                   *)
(* (src/src/ReportParser.py).  A text is the sequence of its tokens: words,*)
(* numerals, the field separator, the quote character and the newline;     *)
(* blanks and tabs only separate tokens, so the strip() of a line has      *)
(* nothing to remove.                                                      *)
(***************************************************************************)
Word(w) == [w |-> w]

NL == [newline |-> TRUE]

Quote == [quote |-> TRUE]

FieldSeparator == [field_separator |-> "$"]

IsWord(token) == DOMAIN token = {"w"}

IsNumeral(token) == DOMAIN token = {"negative", "digits"}

\* The decimal digits of a natural number.
RECURSIVE DecDigits(_)
DecDigits(n) == IF n < 10 THEN <<n>> ELSE Append(DecDigits(n \div 10), n % 10)

\* str(n) of an integer.
Str(n) == Number(n < 0, DecDigits(IF n < 0 THEN -n ELSE n))

\* The value of a sequence of decimal digits.
RECURSIVE DecValue(_)
DecValue(digits) ==
    IF digits = <<>> THEN 0
    ELSE 10 * DecValue(SubSeq(digits, 1, Len(digits) - 1)) + digits[Len(digits)]

\* The tokens joined with the separator between them.
RECURSIVE JoinTokens(_)
JoinTokens(tokens) ==
    IF Len(tokens) <= 1 THEN tokens
    ELSE <<Head(tokens), FieldSeparator>> \o JoinTokens(Tail(tokens))

\* A header value that is an int; one that is a str is the text itself.
PyInt(n) == [int |-> n]

IsPyInt(value) == DOMAIN value = {"int"}

\* str(value) of a header value, as str.format writes it.
PyStr(value) == IF IsPyInt(value) THEN Str(value.int) ELSE value

\* _create_section_header
create_section_header(header) ==
    <<Word("#"), NL,
      Word("#"), Word("Total"), Word("Lost"), Word("Samples:"), PyStr(header.lost), NL,
      Word("#"), NL,
      Word("#"), Word("Samples:"), calculate_prefix(PyStr(header.total_samples)),
          Word("of"), Word("event"), Quote, Word(header.event_name), Quote, NL,
      Word("#"), Word("Event"), Word("count"), Word("(approx.):"),
          PyStr(header.total_samples), NL,
      Word("#"), NL>>

\* field.replace("_", " ").capitalize()
FieldTitle(field) ==
    CASE field = "samples" -> "Samples"
      [] field = "source_symbol" -> "Source symbol"
      [] field = "target_symbol" -> "Target symbol"

\* _create_fields
create_fields(common_fields) ==
    <<Word("#")>>
    \o JoinTokens([i \in 1..Len(common_fields) |-> Word(FieldTitle(common_fields[i]))])
    \o <<NL>>

\* str(value.get(field))
ValueText(item, field) ==
    IF field = "samples" THEN Str(item[field]) ELSE Word(item[field])

\* _create_section_values: the rows by descending samples, one line each.
create_section_values(common_fields, items) ==
    LET sorted_values == SortedDesc(items, [i \in 1..Len(items) |-> items[i].samples])
    IN  Concat([i \in 1..Len(sorted_values) |->
                  JoinTokens([f \in 1..Len(common_fields) |->
                                 ValueText(sorted_values[i], common_fields[f])])
                  \o <<NL>>])

TrailingComment ==
    <<Word("#"), Word("Do"), Word("not"), Word("delete"), Word("this"),
      Word("comment"), Word("symbol"), Word("or"), Word("else"), Word("the"),
      Word("parser"), Word("is"), Word("very"), Word("confused.")>>

\* unparse without the comment after the last section.
unparse_without_comment(common_fields, m) ==
    Concat([i \in 1..Len(m.sections) |->
              create_section_header(m.sections[i].header)
              \o create_fields(common_fields)
              \o create_section_values(common_fields, m.sections[i].values)
              \o <<NL, NL>>])

\* PerfReportUnparser.unparse
unparse(common_fields, m) ==
    Concat([i \in 1..Len(m.sections) |->
              create_section_header(m.sections[i].header)
              \o create_fields(common_fields)
              \o create_section_values(common_fields, m.sections[i].values)
              \o <<NL, NL>>
              \o (IF i = Len(m.sections) THEN TrailingComment ELSE <<>>)])

\* The pieces of a token sequence between the occurrences of a token, after
\* the tokens of piece.
SplitAt(tokens, at, piece) ==
    LET cuts == {i \in 1..Len(tokens) : tokens[i] = at}
        cut[k \in 0..(Cardinality(cuts) + 1)] ==
            IF k = 0 THEN 0
            ELSE IF k = Cardinality(cuts) + 1 THEN Len(tokens) + 1
            ELSE CHOOSE i \in cuts : Cardinality({j \in cuts : j < i}) = k - 1
    IN  [k \in 1..(Cardinality(cuts) + 1) |->
            (IF k = 1 THEN piece ELSE <<>>)
            \o SubSeq(tokens, cut[k - 1] + 1, cut[k] - 1)]

\* The lines a file with the text yields: the pieces between the newlines,
\* without the empty piece after a last newline.
FileLines(text) ==
    LET pieces == SplitAt(text, NL, <<>>)
    IN  IF pieces[Len(pieces)] = <<>> THEN SubSeq(pieces, 1, Len(pieces) - 1)
        ELSE pieces

\* cue in line, for a cue of whole words: the words stand in a row in the
\* line, the last of them possibly followed by a colon.
HasCue(line, cue) ==
    \E at \in 0..(Len(line) - Len(cue)) :
        \A i \in 1..Len(cue) :
            /\ IsWord(line[at + i])
            /\ \/ line[at + i].w = cue[i]
               \/ i = Len(cue) /\ line[at + i].w = cue[i] \o ":"

\* split.strip().lower() and _convert of one piece of a line: a numeral
\* without sign becomes its value, a blank inside a word an underscore.
convert(piece) ==
    IF Len(piece) /= 1 THEN piece
    ELSE IF IsNumeral(piece[1])
    THEN IF piece[1].negative THEN piece[1] ELSE DecValue(piece[1].digits)
    ELSE IF ~IsWord(piece[1]) THEN piece
    ELSE CASE piece[1].w = "Samples" -> "samples"
           [] piece[1].w = "Source symbol" -> "source_symbol"
           [] piece[1].w = "Target symbol" -> "target_symbol"
           [] piece[1].w = "unknown" -> 0
           [] OTHER -> piece[1].w

\* _split_and_clean_values
split_and_clean_values(line) ==
    LET pieces == SplitAt(line, FieldSeparator, <<>>)
    IN  [i \in 1..Len(pieces) |-> convert(pieces[i])]

\* Section() and Metadata(): a header key that is not set is <<>>.
NewSection ==
    [header |-> [lost |-> <<>>, event_name |-> <<>>, total_samples |-> <<>>],
     fields |-> <<>>, values |-> <<>>]

NewMetadata == [header_information |-> <<>>, sections |-> <<>>]

\* PerfReportParser.__init__, and new_section of parse.
NewParser ==
    [header_section |-> FALSE, metadata |-> NewMetadata, section |-> NewSection,
     start_fields |-> FALSE, new_section |-> FALSE]

\* _parse_comments, on the line without its comment sign.
parse_comments(self, line) ==
    IF line = <<>> THEN self
    ELSE IF HasCue(line, <<"========">>)
    THEN [self EXCEPT !.header_section = ~self.header_section]
    ELSE IF self.header_section
    THEN [self EXCEPT !.metadata.header_information = Append(@, line)]
    ELSE IF HasCue(line, <<"Total", "Lost", "Samples">>)
    THEN [self EXCEPT !.section.header.lost = <<line[Len(line)]>>]
    ELSE IF HasCue(line, <<"of", "event">>)
    THEN LET pieces == SplitAt(line, Quote, <<>>)
         IN  [self EXCEPT !.section.header.event_name =
                              <<pieces[Len(pieces) - 1][1].w>>]
    ELSE IF self.start_fields
    THEN [self EXCEPT !.section.fields = split_and_clean_values(line),
                      !.start_fields = FALSE]
    ELSE IF HasCue(line, <<"Event", "count">>)
    THEN [self EXCEPT !.section.header.total_samples = <<line[Len(line)]>>,
                      !.start_fields = TRUE]
    ELSE self

\* {field: value for value, field in zip(values, fields)}
DataLine(cleaned, fields) ==
    LET n == Min(Len(cleaned), Len(fields))
    IN  [f \in {fields[i] : i \in 1..n} |->
            cleaned[CHOOSE i \in 1..n :
                        fields[i] = f /\ \A j \in (i + 1)..n : fields[j] /= f]]

\* One turn of the loop of parse.
parse_line(self, line) ==
    IF line /= <<>> /\ line[1] = Word("#")
    THEN parse_comments(
             IF self.new_section
             THEN [self EXCEPT !.metadata.sections = Append(@, self.section),
                               !.section = NewSection,
                               !.new_section = FALSE]
             ELSE self,
             Tail(line))
    ELSE IF line = <<>>
    THEN [self EXCEPT !.new_section = TRUE]
    ELSE [self EXCEPT !.new_section = TRUE,
                      !.section.values =
                          Append(@, DataLine(split_and_clean_values(line),
                                             self.section.fields))]

RECURSIVE parse_lines(_, _)
parse_lines(self, lines) ==
    IF lines = <<>> THEN self
    ELSE parse_lines(parse_line(self, Head(lines)), Tail(lines))

\* PerfReportParser.parse on a new parser
parse(lines) == parse_lines(NewParser, lines).metadata

\* write_to_unparser, and the lines create_input_file_generator yields of
\* the file written.
Unparse ==
    /\ tpc = "call_unparse"
    /\ whole_text' = FileLines(unparse(CommonFields, metadata))
    /\ tpc' = "written"
    /\ UNCHANGED <<args, node_list_arg, node_list, cluster_list,
                   k_caller_degrade_factor, pc, pos, index, event, visited, result,
                   run, first_run, bvars, values_list, combined_list, parsed_map,
                   sysmap_list, prefix_value, prefix_text, metadata, parsed_file>>

\* PerfReportParser(field_separator).parse(report)
Parse ==
    /\ tpc = "written"
    /\ parsed_file' = parse(whole_text)
    /\ tpc' = "returned"
    /\ UNCHANGED <<args, node_list_arg, node_list, cluster_list,
                   k_caller_degrade_factor, pc, pos, index, event, visited, result,
                   run, first_run, bvars, values_list, combined_list, parsed_map,
                   sysmap_list, prefix_value, prefix_text, metadata, whole_text>>

\* Event counts of 1, 3, 4 and 8 digits: the int that combine_headers of
\* hf-merge.py sums up, and the str that a parsed header holds.
EventCounts ==
    {PyInt(n) : n \in {0, 999, 1000, 51947858}} \cup {Str(1000), Str(51947858)}

\* The value rows of a section: none, one, or two in ascending samples.
SectionValues ==
    {<<>>, <<Item(1, "a", "b")>>, <<Item(1, "a", "b"), Item(2, "c", "a")>>}

UnparsedSections ==
    {[header |-> [event_name |-> e, total_samples |-> t, lost |-> PyInt(0)],
      fields |-> CommonFields, values |-> v] :
        e \in EventNames, t \in EventCounts, v \in SectionValues}

InitRoundTrip ==
    /\ SorterIdle
    /\ BuilderIdle
    /\ values_list = <<>>
    /\ combined_list = <<>>
    /\ parsed_map = <<>>
    /\ sysmap_list = <<>>
    /\ prefix_value = <<>>
    /\ prefix_text = <<>>
    /\ \E sections \in Sections(UnparsedSections, MaxSections) :
          metadata = [header_information |-> <<>>, sections |-> sections]
    /\ whole_text = <<>>
    /\ parsed_file = <<>>
    /\ tpc = "call_unparse"

NextRoundTrip == Unparse \/ Parse

SpecRoundTrip == InitRoundTrip /\ [][NextRoundTrip]_vars

(***************************************************************************)
(* Properties.                                                             *)
(***************************************************************************)
InputNames == {node_list_arg[i].function_name : i \in 1..Len(node_list_arg)}

\* C1 (conservation): at a log level other than DEBUG, the list sort
\* returns holds each Node's function_name exactly once and nothing else.
C1_Conservation ==
    (pc = "done" /\ args.loglevel /= "DEBUG") =>
        /\ \A name \in InputNames :
              Cardinality({k \in 1..Len(result) : result[k] = name}) = 1
        /\ \A k \in 1..Len(result) : result[k] \in InputNames

C1_Witness ==
    /\ pc = "done"
    /\ args.loglevel /= "DEBUG"
    /\ Len(node_list_arg) = 3
    /\ Len(cluster_list) = 2
    /\ Len(result) = 3

\* Places (cluster position, position among its nodes) at which a function
\* name is stored in cluster_list.
PlacesOf(name) ==
    UNION {{<<i, j>> : j \in {k \in 1..Len(cluster_list[i].nodes) :
                                cluster_list[i].nodes[k].function_name = name}} :
             i \in 1..Len(cluster_list)}

\* C2 (partition): in every state of sort, every Node of the input is in
\* exactly one cluster of cluster_list, exactly once in its nodes.
C2_Partition ==
    (pc \in {"loop", "done"}) =>
        /\ \A name \in InputNames : Cardinality(PlacesOf(name)) = 1
        /\ \A i \in 1..Len(cluster_list) :
              \A j \in 1..Len(cluster_list[i].nodes) :
                  cluster_list[i].nodes[j].function_name \in InputNames

C2_Witness ==
    /\ pc = "loop"
    /\ event = "merged"
    /\ Len(node_list_arg) = 3
    /\ Len(cluster_list) = 1

\* C3 (capacity): every cluster of two or more Nodes has a total_size, and
\* a sum of member sizes, of at most page_size.
C3_Capacity ==
    \A i \in 1..Len(cluster_list) :
        Len(cluster_list[i].nodes) >= 2 =>
            /\ cluster_list[i].total_size <= args.pagesize
            /\ SumSeq([j \in 1..Len(cluster_list[i].nodes) |->
                          cluster_list[i].nodes[j].size]) <= args.pagesize

C3_Witness ==
    /\ event = "rejected_capacity"
    /\ \E i \in 1..Len(cluster_list) :
          /\ Len(cluster_list[i].nodes) >= 2
          /\ cluster_list[i].total_size = args.pagesize

\* The cluster of cluster_list that holds a function name.
ClusterOf(name) ==
    CHOOSE i \in 1..Len(cluster_list) :
        \E j \in 1..Len(cluster_list[i].nodes) :
            cluster_list[i].nodes[j].function_name = name

\* The next loop iteration attempts a merge: the processed node has a usable
\* predecessor that is a Node of another cluster.
Attempting ==
    /\ pc = "loop"
    /\ pos <= Len(node_list)
    /\ get_most_likely_predecessor(node_list, CurrentNode) /= <<>>
    /\ ClusterOf(CurrentNode.function_name) /=
          ClusterOf(get_most_likely_predecessor(node_list, CurrentNode)[1].function_name)

SourceIndex == ClusterOf(CurrentNode.function_name)

TargetIndex ==
    ClusterOf(get_most_likely_predecessor(node_list, CurrentNode)[1].function_name)

\* source.total_size + target.total_size > page_size
CapacityCondition(source, target) ==
    source.total_size + target.total_size > args.pagesize

\* source.density > ((source.total_time + target.total_time) /
\*                   (source.total_size + target.total_size)) * degrade_factor,
\* with the density in 1/10000 units and the quotient multiplied out.
DensityCondition(source, target) ==
    source.density * (source.total_size + target.total_size)
        > 10000 * (source.total_time + target.total_time)
          * source.k_caller_degrade_factor

\* C4 (density guard): a merge attempt whose source has a stored density
\* above candidate_density * degrade_factor is not accepted, and an attempt
\* that meets neither that nor the capacity condition is accepted.
C4_DensityGuard ==
    [][Attempting =>
        LET source == cluster_list[SourceIndex]
            target == cluster_list[TargetIndex]
        IN  /\ DensityCondition(source, target) =>
                  Len(cluster_list') = Len(cluster_list)
            /\ (~DensityCondition(source, target) /\ ~CapacityCondition(source, target)) =>
                  /\ Len(cluster_list') = Len(cluster_list) - 1
                  /\ \E i \in 1..Len(cluster_list') :
                        cluster_list'[i].nodes = source.nodes \o target.nodes]_vars

C4_Witness ==
    /\ event = "rejected_density"
    /\ node_list_arg = ScenarioRounding
    /\ Len(cluster_list) = 2

\* C5 (rejection changes nothing): a merge attempt rejected by the capacity
\* or by the density condition leaves cluster_list, and so the nodes,
\* total_size, total_time and density of every cluster, as it was.
C5_RejectionUnchanged ==
    [][(/\ Attempting
        /\ \/ CapacityCondition(cluster_list[SourceIndex], cluster_list[TargetIndex])
           \/ DensityCondition(cluster_list[SourceIndex], cluster_list[TargetIndex]))
       => cluster_list' = cluster_list]_vars

C5_Witness ==
    /\ event = "rejected_capacity"
    /\ args.pagesize = 100
    /\ Len(cluster_list) = 2
    /\ \A i \in 1..2 : cluster_list[i].total_size = 60

\* C6 (accepted merge): after an accepted merge the source cluster holds
\* its old nodes followed by the target's, its totals and density are those
\* of the new member list, and cluster_list is the old list without the
\* target, every other cluster in its old relative place.
C6_AcceptedMerge ==
    [][(Attempting /\ Len(cluster_list') < Len(cluster_list)) =>
        LET s == SourceIndex
            t == TargetIndex
            source == cluster_list[s]
            target == cluster_list[t]
            old(i) == IF i < t THEN i ELSE i + 1
            merged == cluster_list'[IF t < s THEN s - 1 ELSE s]
            size == SumSeq([j \in 1..Len(merged.nodes) |-> merged.nodes[j].size])
            time == SumSeq([j \in 1..Len(merged.nodes) |-> merged.nodes[j].global_samples])
        IN  /\ Len(cluster_list') = Len(cluster_list) - 1
            /\ merged.nodes = source.nodes \o target.nodes
            /\ merged.total_size = size
            /\ merged.total_time = time
            /\ 2 * merged.density * size <= 2 * 10000 * time + size
            /\ 2 * merged.density * size >= 2 * 10000 * time - size
            /\ \A i \in 1..Len(cluster_list') :
                  old(i) /= s => cluster_list'[i] = cluster_list[old(i)]]_vars

C6_Witness ==
    /\ event = "merged"
    /\ run = 1
    /\ Len(node_list_arg) = 3
    /\ Len(cluster_list) = 2
    /\ ClusterNames(cluster_list) = <<<<"A">>, <<"C", "B">>>>

\* C7 as claimed: Scenario A ends with A and B in one cluster, C alone, and
\* returns A, B, C.
C7_ScenarioA_Claimed ==
    (pc = "done" /\ node_list_arg = ScenarioA /\ args.pagesize = 4096
       /\ args.loglevel /= "DEBUG") =>
        /\ ClusterOf("A") = ClusterOf("B")
        /\ Len(cluster_list[ClusterOf("C")].nodes) = 1
        /\ result = <<"A", "B", "C">>

\* C7 (Scenario A, amended): Scenario A ends with A and B in one cluster,
\* C alone, and returns B, A, C: the processed node B first, its caller A
\* appended after it.
C7_ScenarioA ==
    (pc = "done" /\ node_list_arg = ScenarioA /\ args.pagesize = 4096
       /\ args.loglevel /= "DEBUG") =>
        /\ ClusterOf("A") = ClusterOf("B")
        /\ Len(cluster_list[ClusterOf("C")].nodes) = 1
        /\ result = <<"B", "A", "C">>

C7_Witness ==
    /\ pc = "done"
    /\ node_list_arg = ScenarioA
    /\ args = Args(4096, <<>>, "NOTSET")
    /\ cluster_list[1].k_caller_degrade_factor = 8
    /\ Len(result) = 3

\* The Node of the input with a function name, and its place in the list
\* handed to the constructor.
InputNode(name) ==
    node_list_arg[CHOOSE i \in 1..Len(node_list_arg) :
                      node_list_arg[i].function_name = name]

DiscoveryPlace(name) ==
    CHOOSE i \in 1..Len(node_list_arg) : node_list_arg[i].function_name = name

\* name a is processed before name b: more samples, or as many and
\* discovered earlier.
Before(a, b) ==
    \/ InputNode(a).global_samples > InputNode(b).global_samples
    \/ /\ InputNode(a).global_samples = InputNode(b).global_samples
       /\ DiscoveryPlace(a) < DiscoveryPlace(b)

\* C8 (processing order): the loop visits the Nodes in non-increasing
\* order of global_samples, equal global_samples in the order of the list
\* handed to the constructor; no Node is visited twice, none is passed
\* over, and all are visited when sort returns.
C8_ProcessingOrder ==
    /\ \A i, j \in 1..Len(visited) : i < j => Before(visited[i], visited[j])
    /\ \A name \in InputNames :
          (\A i \in 1..Len(visited) : visited[i] /= name) =>
              \A i \in 1..Len(visited) : Before(visited[i], name)
    /\ \A i \in 1..Len(visited) : visited[i] \in InputNames
    /\ pc = "done" => Len(visited) = Len(node_list_arg)

C8_Witness ==
    /\ pc = "done"
    /\ run = 1
    /\ visited = <<"B", "A", "C">>
    /\ InputNode("A").global_samples = InputNode("C").global_samples

\* The orders in which the clusters of cluster_list can be walked.
ClusterOrders ==
    {o \in [1..Len(cluster_list) -> 1..Len(cluster_list)] :
        \A a, b \in 1..Len(cluster_list) : a /= b => o[a] /= o[b]}

\* C9 (final ordering): the function names returned are the clusters' node
\* lists one after the other, a cluster of higher 4-decimal density first
\* and clusters of equal density in their order in cluster_list, which is
\* the discovery order of their first Nodes.
C9_FinalOrdering ==
    pc = "done" =>
        /\ \E o \in ClusterOrders :
              /\ \A a, b \in 1..Len(cluster_list) : a < b =>
                    \/ cluster_list[o[a]].density > cluster_list[o[b]].density
                    \/ /\ cluster_list[o[a]].density = cluster_list[o[b]].density
                       /\ o[a] < o[b]
              /\ ResultNames =
                    Concat([k \in 1..Len(cluster_list) |-> ClusterNames(cluster_list)[o[k]]])
        /\ \A a, b \in 1..Len(cluster_list) : a < b =>
              DiscoveryPlace(cluster_list[a].nodes[1].function_name)
                  < DiscoveryPlace(cluster_list[b].nodes[1].function_name)

C9_Witness ==
    /\ pc = "done"
    /\ Len(cluster_list) = 3
    /\ cluster_list[1].density = cluster_list[2].density
    /\ cluster_list[3].density > cluster_list[1].density
    /\ ResultNames = <<"C", "A", "B">>

\* The partition of the function names into clusters.
Partition == {Range(ns) : ns \in Range(ClusterNames(cluster_list))}

\* C10 as claimed: the sort over the first sort's output order ends with
\* the partition the first sort ended with.
C10_Resort_Claimed ==
    (pc = "done" /\ run = 2) => Partition = first_run.partition

\* The place a name had in the discovery order of the first sort.
FirstPlace(name) ==
    CHOOSE i \in 1..Len(first_run.discovery) : first_run.discovery[i] = name

\* Nodes of equal global_samples stand in the second sort's list in the
\* relative order they had in the first sort's list.
TiesKeepOrder ==
    \A a, b \in InputNames :
        (/\ InputNode(a).global_samples = InputNode(b).global_samples
         /\ FirstPlace(a) < FirstPlace(b))
        => DiscoveryPlace(a) < DiscoveryPlace(b)

\* C10 (re-sort, amended): when the output order O keeps every two Nodes
\* of equal global_samples in their original relative order, as it does
\* when all global_samples differ, the sort over O ends with the
\* partition the first sort ended with.
C10_Resort ==
    (pc = "done" /\ run = 2 /\ TiesKeepOrder) => Partition = first_run.partition

C10_Witness ==
    /\ pc = "done"
    /\ run = 2
    /\ TiesKeepOrder
    /\ Len(node_list_arg) = 3
    /\ Len(cluster_list) = 2
    /\ [i \in 1..3 |-> node_list_arg[i].function_name] /= first_run.discovery

(***************************************************************************)
(* Predecessors that cannot be used.                                       *)
(***************************************************************************)
\* The predecessors of a node with the maximum samples_to_target.
MaxSamplePredecessors(node) ==
    {p \in Range(node.predecessors) :
        \A q \in Range(node.predecessors) :
            q.samples_to_target <= p.samples_to_target}

\* samples_to_target / total_samples * 100 < 0.1
WeightBelowDefault(p) == p.samples_to_target * 1000 < p.total_samples

\* No predecessors at all, or the maximum-sample predecessor weighs less
\* than the minimum arc probability.
NoUsablePredecessor(node) ==
    \/ node.predecessors = <<>>
    \/ \A p \in MaxSamplePredecessors(node) : WeightBelowDefault(p)

IsSingleton(name) == Len(cluster_list[ClusterOf(name)].nodes) = 1

\* C11 as claimed: a Node with no usable predecessor is in a singleton
\* cluster when sort finishes, whatever the other Nodes are.
C11_Singleton_Claimed ==
    pc = "done" =>
        \A i \in 1..Len(node_list_arg) :
            NoUsablePredecessor(node_list_arg[i]) =>
                IsSingleton(node_list_arg[i].function_name)

\* Some other Node has the named one as a maximum-sample predecessor of
\* weight 0.1 or more.
IsUsableCaller(name) ==
    \E j \in 1..Len(node_list_arg) :
        /\ node_list_arg[j].function_name /= name
        /\ \E p \in MaxSamplePredecessors(node_list_arg[j]) :
              p.function_name = name /\ ~WeightBelowDefault(p)

\* C11 (no usable predecessor): when sort finishes, a Node with no usable
\* predecessor that no other Node has as a maximum-sample predecessor of
\* weight 0.1 or more is in a singleton cluster.
C11_Singleton ==
    pc = "done" =>
        \A i \in 1..Len(node_list_arg) :
            (/\ NoUsablePredecessor(node_list_arg[i])
             /\ ~IsUsableCaller(node_list_arg[i].function_name)) =>
                IsSingleton(node_list_arg[i].function_name)

C11_Witness ==
    /\ pc = "done"
    /\ run = 1
    /\ Len(node_list_arg) = 2
    /\ node_list_arg[1].predecessors = <<Predecessor("B", 1, 2000)>>
    /\ node_list_arg[2].predecessors = <<>>
    /\ \A i \in 1..2 : IsSingleton(node_list_arg[i].function_name)

\* The for loop of sort is about to process a node.
Processing == pc = "loop" /\ pos <= Len(node_list)

\* C12 (predecessor selection and threshold): processing a Node without
\* predecessors, or whose maximum-sample predecessor weighs less than 0.1,
\* leaves cluster_list unchanged; a merge takes in the cluster of a
\* maximum-sample predecessor of weight 0.1 or more and of no other; and a
\* single maximum-sample predecessor of weight 0.1 or more, exactly 0.1
\* included, that is a Node of another cluster is merged when neither the
\* capacity nor the density condition stands against it.
C12_PredecessorSelection ==
    [][Processing =>
        LET n == CurrentNode
            s == ClusterOf(n.function_name)
            best == MaxSamplePredecessors(n)
        IN  /\ NoUsablePredecessor(n) => cluster_list' = cluster_list
            /\ cluster_list' /= cluster_list =>
                  /\ Len(cluster_list') = Len(cluster_list) - 1
                  /\ \E p \in best :
                        /\ ~WeightBelowDefault(p)
                        /\ p.function_name \in InputNames
                        /\ \E i \in 1..Len(cluster_list') :
                              cluster_list'[i].nodes =
                                  cluster_list[s].nodes
                                  \o cluster_list[ClusterOf(p.function_name)].nodes
            /\ \A p \in best :
                  (/\ best = {p}
                   /\ ~WeightBelowDefault(p)
                   /\ p.function_name \in InputNames
                   /\ ClusterOf(p.function_name) /= s
                   /\ ~CapacityCondition(cluster_list[s],
                                         cluster_list[ClusterOf(p.function_name)])
                   /\ ~DensityCondition(cluster_list[s],
                                        cluster_list[ClusterOf(p.function_name)]))
                  => Len(cluster_list') = Len(cluster_list) - 1]_vars

\* B, whose heavier caller A weighs exactly 0.1, has taken in A's cluster.
C12_Witness ==
    /\ event = "merged"
    /\ run = 1
    /\ Len(node_list_arg) = 2
    /\ visited = <<"B">>
    /\ node_list_arg[2].predecessors =
          <<Predecessor(Ext, 1, 2000), Predecessor("A", 2, 2000)>>
    /\ ClusterNames(cluster_list) = <<<<"B", "A">>>>

(***************************************************************************)
(* --min-probability.                                                      *)
(***************************************************************************)
\* source.density > candidate_density * v
DensityConditionWith(source, target, v) ==
    source.density * (source.total_size + target.total_size)
        > 10000 * (source.total_time + target.total_time) * v

\* C14 as claimed (degrade-factor override): with args.k_min_prob = v, a
\* merge attempt that fits the page is rejected exactly when
\* source.density > candidate_density * v.
C14_Override_Claimed ==
    [][(Attempting /\ args.k_min_prob /= <<>>) =>
        LET source == cluster_list[SourceIndex]
            target == cluster_list[TargetIndex]
            v == args.k_min_prob[1]
        IN  ~CapacityCondition(source, target) =>
               (Len(cluster_list') = Len(cluster_list)
                   <=> DensityConditionWith(source, target, v))]_vars

\* What the code does with the override: the sorter keeps it in an
\* attribute of its own, every cluster keeps the factor 8, and a merge
\* attempt that fits the page is rejected exactly when
\* source.density > candidate_density * 8.
C14_OverrideUnused ==
    [][(Attempting /\ args.k_min_prob /= <<>>) =>
        LET source == cluster_list[SourceIndex]
            target == cluster_list[TargetIndex]
        IN  /\ k_caller_degrade_factor = args.k_min_prob
            /\ \A i \in 1..Len(cluster_list) :
                  cluster_list[i].k_caller_degrade_factor = K_CALLER_DEGRADE_FACTOR
            /\ ~CapacityCondition(source, target) =>
                   (Len(cluster_list') = Len(cluster_list)
                       <=> DensityConditionWith(source, target,
                                                K_CALLER_DEGRADE_FACTOR))]_vars

\* With --min-probability 1, B (density 2) has taken in A although the
\* density of the two together is 1.5.
C14_Witness ==
    /\ event = "merged"
    /\ run = 1
    /\ args.k_min_prob = <<1>>
    /\ node_list_arg = <<Node("A", 1, 1, <<>>),
                         Node("B", 1, 2, <<Predecessor("A", 1, 1000)>>)>>
    /\ ClusterNames(cluster_list) = <<<<"B", "A">>>>

\* samples_to_target / total_samples * 100 < v
WeightBelow(p, v) == p.samples_to_target * 100 < v * p.total_samples

\* C15 as claimed (--min-probability): with args.k_min_prob = v, a Node
\* whose maximum-sample predecessor weighs less than v is processed without
\* a merge, and a single maximum-sample predecessor of weight v or more
\* that is a Node of another cluster is merged when neither the capacity
\* nor the density condition stands against it.
C15_MinProbability_Claimed ==
    [][(Processing /\ args.k_min_prob /= <<>>) =>
        LET n == CurrentNode
            s == ClusterOf(n.function_name)
            best == MaxSamplePredecessors(n)
            v == args.k_min_prob[1]
        IN  \A p \in best :
               /\ WeightBelow(p, v) => cluster_list' = cluster_list
               /\ (/\ best = {p}
                   /\ ~WeightBelow(p, v)
                   /\ p.function_name \in InputNames
                   /\ ClusterOf(p.function_name) /= s
                   /\ ~CapacityCondition(cluster_list[s],
                                         cluster_list[ClusterOf(p.function_name)])
                   /\ ~DensityCondition(cluster_list[s],
                                        cluster_list[ClusterOf(p.function_name)]))
                  => Len(cluster_list') = Len(cluster_list) - 1]_vars

\* What the code does with --min-probability v: the threshold stays 0.1.  A
\* maximum-sample predecessor below 0.1 is not used, and a single one of
\* 0.1 or more is, whatever v is.
C15_ThresholdFixed ==
    [][(Processing /\ args.k_min_prob /= <<>>) =>
        LET n == CurrentNode
            s == ClusterOf(n.function_name)
            best == MaxSamplePredecessors(n)
        IN  \A p \in best :
               /\ WeightBelowDefault(p) => cluster_list' = cluster_list
               /\ (/\ best = {p}
                   /\ ~WeightBelowDefault(p)
                   /\ p.function_name \in InputNames
                   /\ ClusterOf(p.function_name) /= s
                   /\ ~CapacityCondition(cluster_list[s],
                                         cluster_list[ClusterOf(p.function_name)])
                   /\ ~DensityCondition(cluster_list[s],
                                        cluster_list[ClusterOf(p.function_name)]))
                  => Len(cluster_list') = Len(cluster_list) - 1]_vars

\* With --min-probability 1, B has taken in its caller A, whose arc weighs
\* 0.2.
C15_Witness ==
    /\ event = "merged"
    /\ run = 1
    /\ args.k_min_prob = <<1>>
    /\ Len(node_list_arg) = 2
    /\ node_list_arg[2].predecessors = <<Predecessor("A", 2, 1000)>>
    /\ ClusterNames(cluster_list) = <<<<"B", "A">>>>

(***************************************************************************)
(* A biggest predecessor that is no Node.                                  *)
(***************************************************************************)
\* max(predecessors, key=samples_to_target): the first of the predecessors
\* with the maximum samples_to_target.
FirstMaxPredecessor(node) ==
    node.predecessors[
        CHOOSE i \in 1..Len(node.predecessors) :
            /\ node.predecessors[i] \in MaxSamplePredecessors(node)
            /\ \A k \in 1..(i - 1) :
                  node.predecessors[k] \notin MaxSamplePredecessors(node)]

\* C20 (unresolvable predecessor): when the maximum-sample predecessor of
\* the processed Node names no Node of the set, the iteration does not
\* abort, leaves cluster_list unchanged whatever the Node's other
\* predecessors are, and the loop goes on to the next Node.
C20_UnresolvablePredecessor ==
    [][(/\ Processing
        /\ CurrentNode.predecessors /= <<>>
        /\ FirstMaxPredecessor(CurrentNode).function_name \notin InputNames)
       => /\ cluster_list' = cluster_list
          /\ pc' = "loop"
          /\ pos' = pos + 1
          /\ visited' = Append(visited, CurrentNode.function_name)]_vars

\* B, called twice from an address and once, at weight 0.1, from A, has
\* been processed: A's cluster has not been taken in.
C20_Witness ==
    /\ pc = "loop"
    /\ run = 1
    /\ event = "no_predecessor"
    /\ visited = <<"B">>
    /\ Len(node_list_arg) = 2
    /\ node_list_arg[2].predecessors =
          <<Predecessor(Ext, 2, 1000), Predecessor("A", 1, 1000)>>
    /\ ClusterNames(cluster_list) = <<<<"A">>, <<"B">>>>

(***************************************************************************)
(* The graph builder.                                                      *)
(***************************************************************************)
\* The name is 0x followed by one or more of 0-9, a-f, A-F.
MatchesHexPattern(name) ==
    LET c == Spelling(name)
    IN  /\ Len(c) > 2
        /\ SubSeq(c, 1, 2) = <<"0", "x">>
        /\ Range(SubSeq(c, 3, Len(c))) \subseteq HexDigits

\* The rows of the section with the named target.
RowsTo(name) ==
    {i \in 1..Len(section.values) : section.values[i].target_symbol = name}

\* The samples of the rows at the given places, added up.
SamplesAt(places) ==
    SumSeq([i \in 1..Len(section.values) |->
               IF i \in places THEN section.values[i].samples ELSE 0])

\* C13 (hex targets): no Node of the graph builder and no line of the
\* output of sort has a name matching ^0x[0-9a-fA-F]+$, and the rows with
\* such a target are in no Node's global_samples or predecessors: the
\* samples of a Node are those of rows whose target does not match, and
\* each of its predecessors is the source of such a row.
C13_HexExcluded ==
    /\ \A i \in 1..Len(parsed_info) :
          LET node == parsed_info[i]
              plain == {k \in RowsTo(node.function_name) :
                           ~MatchesHexPattern(section.values[k].target_symbol)}
          IN  /\ ~MatchesHexPattern(node.function_name)
              /\ node.global_samples = SamplesAt(plain)
              /\ \A j \in 1..Len(node.predecessors) :
                    \E k \in plain :
                        /\ section.values[k].source_symbol =
                              node.predecessors[j].function_name
                        /\ section.values[k].samples =
                              node.predecessors[j].samples_to_target
    /\ pc = "done" =>
          \A i \in 1..Len(result) : ~MatchesHexPattern(ResultNames[i])

\* A section whose first row has an address as its target has been built
\* into two Nodes and sorted.
C13_Witness ==
    /\ pc = "done"
    /\ bpc = "returned"
    /\ Len(section.values) = 3
    /\ section.values[1].target_symbol = "0xff"
    /\ hex_symbols = 1
    /\ Len(result) = 2

\* C16 (sample accumulation): the global_samples of every Node of the
\* graph builder is the sum of the samples of all rows of the section with
\* the Node's name as target, rows from the Node to itself included, at
\* whatever places of the section they stand.
C16_SampleAccumulation ==
    \A i \in 1..Len(parsed_info) :
        parsed_info[i].global_samples =
            SamplesAt(RowsTo(parsed_info[i].function_name))

\* a is the target of the first row, from itself, and of the third, from b.
C16_Witness ==
    /\ bpc = "returned"
    /\ section.values = <<Row(2, "a", "a", <<1>>), Row(1, "a", "b", <<1>>),
                          Row(1, "b", "a", <<1>>)>>
    /\ Len(parsed_info) = 2
    /\ parsed_info[1].function_name = "a"
    /\ parsed_info[1].global_samples = 3

\* The sources of the rows to the named target, the target itself left out.
CallersOf(name) ==
    {section.values[k].source_symbol : k \in RowsTo(name)} \ {name}

\* C17 as claimed (predecessor uniqueness): the predecessors of every Node
\* of the graph builder hold exactly one record for each source, other than
\* the Node, of a row to the Node, and no other record.
C17_PredecessorUnique_Claimed ==
    \A i \in 1..Len(parsed_info) :
        LET node == parsed_info[i]
            names == [j \in 1..Len(node.predecessors) |->
                         node.predecessors[j].function_name]
        IN  /\ Range(names) = CallersOf(node.function_name)
            /\ \A j, k \in 1..Len(names) : names[j] = names[k] => j = k

\* What the code builds: one Predecessor for every row to the Node from
\* another source, in the order of the rows, and none for the Node itself.
C17_PredecessorPerRow ==
    \A i \in 1..Len(parsed_info) :
        LET node == parsed_info[i]
            calls == {k \in RowsTo(node.function_name) :
                         section.values[k].source_symbol /= node.function_name}
        IN  /\ Len(node.predecessors) = Cardinality(calls)
            /\ \A j \in 1..Len(node.predecessors) :
                  /\ node.predecessors[j].function_name /= node.function_name
                  /\ \E k \in calls :
                        /\ Cardinality({m \in calls : m <= k}) = j
                        /\ node.predecessors[j] =
                              Predecessor(section.values[k].source_symbol,
                                          section.values[k].samples,
                                          section.header.total_samples)

\* Two rows from b to a have made two Predecessor records of a.
C17_Witness ==
    /\ bpc = "returned"
    /\ section.values = <<Row(1, "b", "a", <<1>>), Row(2, "b", "a", <<1>>)>>
    /\ Len(parsed_info) = 1
    /\ parsed_info[1].predecessors =
          <<Predecessor("b", 1, 1000), Predecessor("b", 2, 1000)>>

(***************************************************************************)
(* Sizes.                                                                  *)
(***************************************************************************)
Targets == {section.values[k].target_symbol : k \in 1..Len(section.values)}

\* The first row of the section with the named target: the row the size is
\* resolved from.
FirstRowTo(name) ==
    section.values[CHOOSE k \in RowsTo(name) : \A m \in RowsTo(name) : k <= m]

BuiltNames == {parsed_info[i].function_name : i \in 1..Len(parsed_info)}

NoSizeList == DOMAIN symbol_size_list = {}

\* C18 as claimed (no size table): without a size table, a section with
\* targets whose first row has no symbol_size is scanned to its end without
\* an exception, and the Nodes returned are those of the targets whose
\* first row has a size other than 0.
C18_NoTable_Claimed ==
    NoSizeList =>
        /\ bpc \in {"scan", "returned", "ZeroDivisionError"}
        /\ bpc = "returned" =>
              BuiltNames = {t \in Targets :
                               /\ ~MatchesHexPattern(t)
                               /\ FirstRowTo(t).symbol_size \notin {<<>>, <<0>>}}

\* What the code does without a size table: int(None) raises TypeError at
\* the first row of a target that has no symbol_size, so a scan that ends
\* has met a symbol_size in the first row of every target; a size of 0
\* (unknown) drops the target and the scan goes on.
C18_NoTableRaises ==
    NoSizeList =>
        /\ bpc = "TypeError" =>
              /\ row <= Len(section.values)
              /\ section.values[row].symbol_size = <<>>
              /\ section.values[row].target_symbol \notin Range(examined_nodes)
        /\ bpc \in {"returned", "ZeroDivisionError"} =>
              /\ \A t \in Targets :
                    ~MatchesHexPattern(t) => FirstRowTo(t).symbol_size /= <<>>
              /\ BuiltNames = {t \in Targets :
                                   /\ ~MatchesHexPattern(t)
                                   /\ FirstRowTo(t).symbol_size /= <<0>>}

\* Without a size table, a has been built and the row of b, which has no
\* symbol_size, has raised TypeError.
C18_Witness ==
    /\ bpc = "TypeError"
    /\ NoSizeList
    /\ args.loglevel = "NOTSET"
    /\ section.values = <<Row(1, "c", "a", <<1>>), Row(1, "c", "b", <<>>)>>
    /\ BuiltNames = {"a"}

\* The size the graph builder resolves for a target: the table's, else the
\* one of the target's first row; <<>> when there is neither.
ResolvedSize(t) ==
    IF t \in DOMAIN symbol_size_list THEN <<symbol_size_list[t]>>
    ELSE FirstRowTo(t).symbol_size

Resolvable == {t \in Targets : ~MatchesHexPattern(t) /\ ResolvedSize(t) \notin {<<>>, <<0>>}}

\* The targets that are not in the table and have no symbol_size in their
\* first row.
Sizeless == {t \in Targets : ~MatchesHexPattern(t) /\ ResolvedSize(t) = <<>>}

\* C19 as claimed (missing size is recoverable): with a size table, at
\* every log level, the scan of a section with targets that are neither in
\* the table nor sized by their row ends without an exception, and the
\* Nodes returned are those of all the targets with a size.
C19_MissingSize_Claimed ==
    ~NoSizeList =>
        /\ bpc \in {"scan", "returned", "ZeroDivisionError"}
        /\ bpc = "returned" => BuiltNames = Resolvable

\* What the code does with a size table: get_symbol_size returns
\* (None, None) for such a target and the builder's counter becomes None.
\* With no log level the scan ends and returns the Nodes of the other
\* targets; at DEBUG the counter's increment raises TypeError at that
\* target, and at INFO the statistics after the scan do.
C19_MissingSizeRaises ==
    ~NoSizeList =>
        /\ args.loglevel = "NOTSET" =>
              /\ bpc \in {"scan", "returned"}
              /\ bpc = "returned" => BuiltNames = Resolvable
        /\ bpc = "TypeError" =>
              /\ args.loglevel \in {"INFO", "DEBUG"}
              /\ Sizeless /= {}
              /\ args.loglevel = "INFO" => row > Len(section.values)
              /\ args.loglevel = "DEBUG" =>
                    /\ row <= Len(section.values)
                    /\ section.values[row].target_symbol \in Sizeless
        /\ (bpc = "returned" /\ args.loglevel /= "NOTSET") =>
              Sizeless = {} /\ BuiltNames = Resolvable

\* With b in the size table and a neither there nor sized by its row, the
\* scan at INFO has built b and the statistics have raised TypeError.
C19_Witness ==
    /\ bpc = "TypeError"
    /\ ~NoSizeList
    /\ args.loglevel = "INFO"
    /\ section.values = <<Row(1, "c", "a", <<>>), Row(1, "c", "b", <<>>)>>
    /\ row = 3
    /\ not_found_size_symbols = <<>>
    /\ BuiltNames = {"b"}

BuiltSizes == {parsed_info[i].size : i \in 1..Len(parsed_info)}

\* The targets whose resolved size is an integer below zero.
NegativelySized ==
    {t \in Targets : /\ ~MatchesHexPattern(t)
                     /\ ResolvedSize(t) /= <<>>
                     /\ ResolvedSize(t)[1] < 0}

\* C22 as claimed (positive size): every Node of the graph builder has a
\* size greater than zero, and a target whose resolved size is zero,
\* negative or missing has no Node.
C22_PositiveSize_Claimed ==
    /\ \A z \in BuiltSizes : z > 0
    /\ \A t \in Targets :
          (~MatchesHexPattern(t) /\ (ResolvedSize(t) = <<>> \/ ResolvedSize(t)[1] <= 0))
              => t \notin BuiltNames

\* What the code does: the builder drops a target only when its resolved
\* size is 0, "unknown" or None, so no Node has size zero and a target of
\* size zero or without a size has no Node, but a target whose resolved size
\* is negative gets a Node of that size once the scan has passed its rows.
C22_NonzeroSize ==
    /\ \A z \in BuiltSizes : z /= 0
    /\ \A i \in 1..Len(parsed_info) :
          <<parsed_info[i].size>> = ResolvedSize(parsed_info[i].function_name)
    /\ \A t \in Targets :
          (~MatchesHexPattern(t) /\ ResolvedSize(t) \in {<<>>, <<0>>})
              => t \notin BuiltNames
    /\ bpc = "returned" => NegativelySized \subseteq BuiltNames

\* The scan has returned a Node of size -1 for a (from its row, a not being
\* in the table) and none for b, whose table entry is 0.
C22_Witness ==
    /\ bpc = "returned"
    /\ symbol_size_list = "b" :> 0
    /\ Len(section.values) = 2
    /\ section.values[1] = Row(1, "c", "a", <<-1>>)
    /\ section.values[2] = Row(1, "c", "b", <<1>>)
    /\ BuiltNames = {"a"}
    /\ BuiltSizes = {-1}



\* The distance of x from zero.
Abs(x) == IF x < 0 THEN -x ELSE x

\* Whether the stored aggregates of a cluster are those of its members:
\* the sums of the sizes and of the samples, and a density no further than
\* half of 1/10000 from total_time / total_size.
Consistent(cluster) ==
    /\ cluster.total_size =
          SumSeq([i \in 1..Len(cluster.nodes) |-> cluster.nodes[i].size])
    /\ cluster.total_time =
          SumSeq([i \in 1..Len(cluster.nodes) |-> cluster.nodes[i].global_samples])
    /\ 2 * Abs(cluster.density * cluster.total_size
                 - cluster.total_time * DensityScale) <= Abs(cluster.total_size)

\* C23 (aggregate consistency): in every state of sort between two loop
\* iterations, after an accepted merge included, and at the return, each
\* cluster of cluster_list has total_size and total_time equal to the sums
\* over its nodes and density equal to total_time / total_size rounded to
\* four decimals.
C23_AggregateConsistency ==
    pc \in {"loop", "done"} =>
        \A c \in 1..Len(cluster_list) : Consistent(cluster_list[c])

\* An accepted merge has just made a cluster of two nodes whose density is
\* not a whole number of 1/10000: 2 samples over 22 bytes, stored as 0.0909.
C23_Witness ==
    /\ pc = "loop"
    /\ event = "merged"
    /\ \E c \in 1..Len(cluster_list) :
          /\ Len(cluster_list[c].nodes) = 2
          /\ cluster_list[c].total_size = 22
          /\ cluster_list[c].total_time = 2
          /\ cluster_list[c].density = 909


\* Whether the names x and y are nodes of one cluster of cl.
SameCluster(cl, x, y) ==
    \E c \in 1..Len(cl) : {x, y} \subseteq Range(ClusterNames(cl)[c])

\* Whether x stands before y among the nodes of one cluster of cl.
Precedes(cl, x, y) ==
    \E c \in 1..Len(cl) :
        \E i, j \in 1..Len(cl[c].nodes) :
            /\ i < j
            /\ cl[c].nodes[i].function_name = x
            /\ cl[c].nodes[j].function_name = y

\* The first node's name of each cluster of cl, cluster by cluster.
FirstNodes(cl) == [c \in 1..Len(cl) |-> cl[c].nodes[1].function_name]

\* Whether x stands before y in the list of names.
StandsBefore(names, x, y) ==
    \E i, j \in 1..Len(names) : i < j /\ names[i] = x /\ names[j] = y

\* C24 (clusters only grow, append-only): over every step of one sort, two
\* Nodes of one cluster stay in one cluster, a Node standing before another
\* in a cluster keeps standing before it, also in the list sort returns;
\* and the clusters keep the first Node they were created for: a step
\* leaves the first Nodes as they were or removes the absorbed cluster's.
C24_AppendOnly ==
    [][(pc = "loop" /\ run' = run) =>
        /\ \A x, y \in InputNames :
              /\ SameCluster(cluster_list, x, y) => SameCluster(cluster_list', x, y)
              /\ Precedes(cluster_list, x, y) =>
                    /\ Precedes(cluster_list', x, y)
                    /\ pc' = "done" => StandsBefore(ResultNames', x, y)
        /\ \/ FirstNodes(cluster_list') = FirstNodes(cluster_list)
           \/ \E t \in 1..Len(cluster_list) :
                 FirstNodes(cluster_list') = DelAt(FirstNodes(cluster_list), t)
        /\ \A c \in 1..Len(cluster_list') :
              \E d \in 1..Len(cluster_list) :
                  /\ Len(cluster_list[d].nodes) <= Len(cluster_list'[c].nodes)
                  /\ SubSeq(cluster_list'[c].nodes, 1, Len(cluster_list[d].nodes))
                        = cluster_list[d].nodes]_vars

\* All three Nodes have been merged into the cluster of the Node processed
\* first, two of them in an order other than the one they were processed
\* in, and sort has returned them in the cluster's order.
C24_Witness ==
    /\ pc = "done"
    /\ Len(node_list_arg) = 3
    /\ Len(cluster_list) = 1
    /\ Len(visited) = 3
    /\ FirstNodes(cluster_list) = <<visited[1]>>
    /\ cluster_list[1].nodes[2].function_name /= visited[2]
    /\ ResultNames = ClusterNames(cluster_list)[1]


\* The Nodes _find_cluster is called with in the next loop iteration: the
\* processed Node and its resolved predecessor Node, when it has one.
LookedUp ==
    IF pc = "loop" /\ pos <= Len(node_list)
          /\ get_most_likely_predecessor(node_list, CurrentNode) /= <<>>
    THEN {CurrentNode, get_most_likely_predecessor(node_list, CurrentNode)[1]}
    ELSE {}

\* C25 (the cluster-lookup exit is unreachable): with pairwise distinct
\* function names, every _find_cluster call of sort, before and after
\* merges and deletions, returns the index of a cluster of cluster_list
\* that holds the Node, and sort never takes the exit.
C25_LookupSucceeds ==
    /\ pc /= "exit"
    /\ event /= "cluster_not_found"
    /\ \A node \in LookedUp :
          /\ find_cluster(cluster_list, node) \in 1..Len(cluster_list)
          /\ InCluster(cluster_list[find_cluster(cluster_list, node)], node)

\* After a merge and the deletion of the absorbed cluster, the next
\* iteration looks up a Node and its predecessor, one of them in the
\* merged cluster.
C25_Witness ==
    /\ pc = "loop"
    /\ Len(cluster_list) < Len(node_list)
    /\ Cardinality(LookedUp) = 2
    /\ \E node \in LookedUp :
          Len(cluster_list[find_cluster(cluster_list, node)].nodes) = 2


(***************************************************************************)
(* Termination.                                                            *)
(***************************************************************************)
\* The Nodes for which _get_most_likely_predecessor returns a Node.
WithPredecessor ==
    {i \in 1..Len(node_list) :
        get_most_likely_predecessor(node_list, node_list[i]) /= <<>>}

\* What holds of the loop of sort whether or not sort returns: an iteration
\* visits one more Node and removes at most one cluster, no step adds a
\* cluster, and at the return every Node has been visited exactly once and
\* the clusters left are at least the Nodes without a predecessor Node.
LoopBounded ==
    /\ [][/\ Len(cluster_list') \in {Len(cluster_list), Len(cluster_list) - 1}
          /\ pc' = "loop" => /\ Len(visited') = Len(visited) + 1
                              /\ pos' = pos + 1]_vars
    /\ [](pc = "done" =>
            /\ Len(visited) = Len(node_list)
            /\ \A i \in 1..Len(node_list) :
                  Cardinality({k \in 1..Len(visited) :
                                  visited[k] = node_list[i].function_name}) = 1
            /\ Len(cluster_list) >= Len(node_list) - Cardinality(WithPredecessor))

\* C26 as claimed (termination): for every Node list sort eventually
\* returns, having visited each Node once with at most one merge per Node,
\* the clusters never more than before and at the end at least the Nodes
\* less those with a usable, resolvable predecessor.
C26_Termination_Claimed ==
    /\ <>(pc = "done")
    /\ LoopBounded

\* What the code does: sort returns for every Node list that is not empty
\* and, with no log level, for the empty one; with the empty list at INFO
\* or DEBUG the statistics after the loop divide by len(self.node_list)
\* and sort ends in ZeroDivisionError.
C26_Termination ==
    /\ (node_list /= <<>> \/ args.loglevel = "NOTSET") ~> (pc = "done")
    /\ (node_list = <<>> /\ args.loglevel \in {"INFO", "DEBUG"}) ~> (pc = "error")
    /\ [](pc /= "error" \/ event = "ZeroDivisionError")
    /\ LoopBounded

\* sort over the empty Node list at INFO has raised ZeroDivisionError.
C26_Witness ==
    /\ pc = "error"
    /\ event = "ZeroDivisionError"
    /\ node_list_arg = <<>>
    /\ cluster_list = <<>>
    /\ args.loglevel = "INFO"


(***************************************************************************)
(* Report merging.                                                         *)
(***************************************************************************)
\* The reports (positions in values_list) with a row of the edge.
ReportsWith(e) ==
    {r \in 1..Len(values_list) :
        \E i \in 1..Len(values_list[r]) :
            /\ values_list[r][i].source_symbol = e[1]
            /\ values_list[r][i].target_symbol = e[2]}

\* The samples of the edge's row in report r.
SamplesIn(r, e) ==
    LET i == CHOOSE i \in 1..Len(values_list[r]) :
                /\ values_list[r][i].source_symbol = e[1]
                /\ values_list[r][i].target_symbol = e[2]
    IN  values_list[r][i].samples

RECURSIVE SumOver(_, _)
SumOver(rs, e) ==
    IF rs = {} THEN 0
    ELSE LET r == CHOOSE r \in rs : TRUE
         IN  SamplesIn(r, e) + SumOver(rs \ {r}, e)

\* The rows of the edge in what combine_values returned.
CombinedRows(e) ==
    {i \in 1..Len(combined_list) :
        /\ combined_list[i].source_symbol = e[1]
        /\ combined_list[i].target_symbol = e[2]}

\* C27 as claimed (report merging sums samples): the combined row of an
\* edge has the sum of the edge's samples over all the reports it occurs
\* in; an edge of one report only keeps its samples.
C27_MergeSums_Claimed ==
    tpc = "returned" =>
        \A e \in Edges :
            ReportsWith(e) /= {} =>
                /\ Cardinality(CombinedRows(e)) = 1
                /\ \A i \in CombinedRows(e) :
                      combined_list[i].samples = SumOver(ReportsWith(e), e)

\* What the code does: after add_up_samples the entry is overwritten with
\* the new report's row, so the combined row of an edge has the samples of
\* the last report the edge occurs in; it is the sum only for an edge of
\* one report.  The rows keep the common fields only.
C27_MergeKeepsLast ==
    tpc = "returned" =>
        /\ \A e \in Edges :
              /\ ReportsWith(e) = {} => CombinedRows(e) = {}
              /\ ReportsWith(e) /= {} =>
                    /\ Cardinality(CombinedRows(e)) = 1
                    /\ \A i \in CombinedRows(e) :
                          combined_list[i].samples =
                              SamplesIn(CHOOSE r \in ReportsWith(e) :
                                            \A q \in ReportsWith(e) : q <= r, e)
        /\ \A i \in 1..Len(combined_list) :
              DOMAIN combined_list[i] = Range(CommonFields)

\* Two reports with the edge a -> b, of 1 and of 2 samples, and an edge
\* c -> a in the first only: the combined rows are a -> b with 2 samples
\* and c -> a with 1.
C27_Witness ==
    /\ tpc = "returned"
    /\ values_list = <<<<Item(1, "a", "b"), Item(1, "c", "a")>>, <<Item(2, "a", "b")>>>>
    /\ combined_list = <<filter_for_common(CommonFields, Item(2, "a", "b")),
                         filter_for_common(CommonFields, Item(1, "c", "a"))>>


(***************************************************************************)
(* The system map.                                                         *)
(***************************************************************************)
\* The positions of the text symbols of parsed_map.
TextEntries == {i \in 1..Len(parsed_map) : parsed_map[i].symbol_type \in {"t", "T"}}

\* The size the dict returned has for a symbol, <<>> if it has none.
SizeOf(symbol) ==
    IF DictIndex(sysmap_list, symbol) = 0 THEN <<>>
    ELSE <<sysmap_list[DictIndex(sysmap_list, symbol)].value>>

\* The address of entry i as a number: 0x10 = 16, 0x1f = 31, 0xa0 = 160.
AddressOf(i) == HexValue(parsed_map[i].address)

\* Every text symbol but the last entry has the next entry's address minus
\* its own as its size, and no other symbol has a size.
SizesToNext ==
    /\ \A i \in TextEntries \ {Len(parsed_map)} :
          SizeOf(parsed_map[i].symbol) = <<AddressOf(i + 1) - AddressOf(i)>>
    /\ \A i \in (1..Len(parsed_map)) \ TextEntries :
          SizeOf(parsed_map[i].symbol) = <<>>

\* C28 as claimed (last symbol of the system map): for a map whose last
\* entry is a text symbol the function returns, that symbol with size
\* zero and every other text symbol with the distance to the next entry.
C28_LastSymbol_Claimed ==
    (tpc /= "call_calculate_size" /\ Len(parsed_map) \in TextEntries) =>
        /\ tpc = "returned"
        /\ SizeOf(parsed_map[Len(parsed_map)].symbol) = <<0>>
        /\ SizesToNext

\* What the code does: the test index + 1 > total_length is false for
\* every index of the list, so for a last entry that is a text symbol
\* parsed_map[index + 1] raises IndexError and no dict is returned; for
\* every other map the dict of the distances is returned.
C28_LastSymbolRaises ==
    tpc /= "call_calculate_size" =>
        /\ Len(parsed_map) \in TextEntries => tpc = "IndexError" /\ sysmap_list = <<>>
        /\ Len(parsed_map) \notin TextEntries => tpc = "returned" /\ SizesToNext

\* A map of the text symbols f at 0x10 and g at 0x1f: IndexError at g.
C28_Witness ==
    /\ tpc = "IndexError"
    /\ parsed_map = <<MapElement(<<"1", "0">>, "t", "f"),
                      MapElement(<<"1", "f">>, "T", "g")>>
    /\ AddressOf(2) - AddressOf(1) = 15


(***************************************************************************)
(* The SI abbreviation.                                                    *)
(***************************************************************************)
\* The largest index k of si_prefixes with 1000^k <= v, 0 for v = 0: a
\* number of n digits is at least 1000^k exactly when n >= 3k + 1.
LargestPower(value) ==
    IF value.digits = <<0>> THEN 0
    ELSE Min((Len(value.digits) - 1) \div 3, Len(si_prefixes) - 1)

InRange(value) == ~value.negative /\ ~Above10To17(value)

\* floor(v / 1000^k) followed by the k-th prefix.
Abbreviation(value, k) ==
    [number |-> FloorDivThousands(value.digits, k), prefix |-> si_prefixes[k + 1]]

\* C29 as claimed (SI abbreviation): for 0 <= v <= 10^17 the text is
\* floor(v / 1000^k) and the k-th prefix, k the largest index with
\* 1000^k <= v; a negative v or v > 10^17 gives NULL.
C29_Prefix_Claimed ==
    tpc = "returned" =>
        /\ InRange(prefix_value) =>
              prefix_text = Abbreviation(prefix_value, LargestPower(prefix_value))
        /\ ~InRange(prefix_value) => prefix_text.prefix = "NULL"

\* What the code does: the index is len(str(v)) // 3, so a value of 3, 6,
\* 9, 12 or 15 digits is divided by the next power of 1000 and comes out
\* as 0 with the next prefix (100 -> 0K, 999999 -> 0M); every other value
\* in the range comes out as claimed, and NULL is returned outside it.
C29_PrefixByLength ==
    tpc = "returned" =>
        LET n == Len(prefix_value.digits)
        IN  /\ (InRange(prefix_value) /\ n \in {3, 6, 9, 12, 15}) =>
                  prefix_text = [number |-> <<0>>, prefix |-> si_prefixes[(n \div 3) + 1]]
            /\ (InRange(prefix_value) /\ n \notin {3, 6, 9, 12, 15}) =>
                  prefix_text = Abbreviation(prefix_value, LargestPower(prefix_value))
            /\ ~InRange(prefix_value) => prefix_text = [number |-> <<>>, prefix |-> "NULL"]

\* _calculate_prefix(100) has returned 0K.
C29_Witness ==
    /\ tpc = "returned"
    /\ prefix_value = Number(FALSE, <<1, 0, 0>>)
    /\ prefix_text = [number |-> <<0>>, prefix |-> "K"]


(***************************************************************************)
(* The round trip of a report.                                             *)
(***************************************************************************)
\* The line of the trailing comment is the last line of the text.
EndsWithComment == whole_text /= <<>> /\ whole_text[Len(whole_text)] = TrailingComment

\* Every section parsed back has the event_name of its section of metadata.
SameSections ==
    /\ Len(parsed_file.sections) = Len(metadata.sections)
    /\ \A i \in 1..Len(metadata.sections) :
          parsed_file.sections[i].header.event_name =
              <<metadata.sections[i].header.event_name>>

\* C30 as claimed: parse of the lines of unparse(m) returns as many sections
\* as m has, in m's order, each with the event_name and the total_samples of
\* m's section.
C30_RoundTrip_Claimed ==
    tpc = "returned" =>
        /\ SameSections
        /\ \A i \in 1..Len(metadata.sections) :
              parsed_file.sections[i].header.total_samples =
                  <<metadata.sections[i].header.total_samples>>

\* C30 (parse/unparse round trip on sections): parse of the lines of
\* unparse(m) returns as many sections as m has, sections without value
\* rows included, in m's order, each with the event_name of m's section and
\* with the str of its total_samples, which is the total_samples itself only
\* where that is a str; and parse of the lines without the trailing comment
\* line returns all sections but the last.
C30_RoundTrip ==
    /\ tpc = "returned" =>
          /\ SameSections
          /\ \A i \in 1..Len(metadata.sections) :
                /\ parsed_file.sections[i].header.total_samples =
                      <<PyStr(metadata.sections[i].header.total_samples)>>
                /\ ~IsPyInt(parsed_file.sections[i].header.total_samples[1])
    /\ (tpc /= "call_unparse" /\ metadata.sections /= <<>>) =>
          /\ EndsWithComment
          /\ Len(parse(SubSeq(whole_text, 1, Len(whole_text) - 1)).sections)
                = Len(metadata.sections) - 1

\* Two sections, the first without value rows and with an int as its
\* total_samples, the second with two rows and a str, have been written
\* and parsed back: two sections, the total_samples of the first the str of
\* the int, and the rows of the second in descending samples.
C30_Witness ==
    /\ tpc = "returned"
    /\ Len(metadata.sections) = 2
    /\ metadata.sections[1].values = <<>>
    /\ metadata.sections[1].header.total_samples = PyInt(51947858)
    /\ metadata.sections[2].header.total_samples = Str(1000)
    /\ Len(metadata.sections[2].values) = 2
    /\ Len(parsed_file.sections) = 2
    /\ parsed_file.sections[1].values = <<>>
    /\ parsed_file.sections[1].header.total_samples = <<Str(51947858)>>
    /\ parsed_file.sections[2].header.total_samples = <<Str(1000)>>
    /\ parsed_file.sections[2].fields = CommonFields
    /\ parsed_file.sections[2].values =
          <<filter_for_common(CommonFields, Item(2, "c", "a")),
            filter_for_common(CommonFields, Item(1, "a", "b"))>>

====
